---- MODULE Spec2Model ----
(***************************************************************************)
(* Model of UStrandsInputServerSubsystem (StrandsInputServer plugin): a    *)
(* localhost TCP server that reads newline-delimited JSON commands and     *)
(* applies them to the possessed character once per Tick.                  *)
(*                                                                         *)
(* Text is modelled as a sequence of tokens.  "\n", "\r" and " " are the   *)
(* characters the line framer looks at; every other token stands for a run *)
(* of JSON text ("{", "}", one "key:value" member, or text that is not     *)
(* JSON).  Numbers are integers: an axis value of 1 is 1.0, one time unit  *)
(* is 50 ms.                                                               *)
(***************************************************************************)
EXTENDS Integers, Sequences, FiniteSets, TLC

\* ---------------------------------------------------------------- bounds
MaxSockets == 2      \* sockets the listener accepts in one run
MaxSends   == 2      \* writes the peers make in one run
MaxTime    == 2      \* the clock stops advancing here

\* tokens one Recv returns at most: the 65536 bytes of the read loop, scaled down
ChunkLimit == 8

Lags       == {0, 1}   \* time that may pass inside one Tick, between poll and apply
DeltaTimes == {1, 2}   \* the DeltaTime handed to Tick

\* ------------------------------------------------------- cached settings
DefaultMoveDuration == 5
DefaultLookDuration == 4
NormalWalkSpeed == 600
SprintWalkSpeed == 1000

\* ------------------------------------------------------------------ text
LF == "\n"
CR == "\r"
SP == " "

\* FChar::IsWhitespace as used by FString::TrimStartAndEndInline
IsWhitespace(c) == c \in {SP, CR, LF}

Min(a, b) == IF a < b THEN a ELSE b
Max(a, b) == IF a > b THEN a ELSE b

\* FString::FindChar: index of the first occurrence, 0 when there is none
FindChar(str, c) ==
    IF \E i \in 1..Len(str) : str[i] = c
    THEN CHOOSE i \in 1..Len(str) : str[i] = c /\ \A j \in 1..(i-1) : str[j] # c
    ELSE 0

RECURSIVE TrimStart(_)
TrimStart(str) ==
    IF str # <<>> /\ IsWhitespace(Head(str)) THEN TrimStart(Tail(str)) ELSE str

RECURSIVE TrimEnd(_)
TrimEnd(str) ==
    IF str # <<>> /\ IsWhitespace(str[Len(str)])
    THEN TrimEnd(SubSeq(str, 1, Len(str) - 1))
    ELSE str

TrimStartAndEnd(str) == TrimEnd(TrimStart(str))

\* Strands_SplitLines with "if" for "while": one line is taken per call
SplitFirstLineOnly(Accumulator, OutLines) ==
    LET NewlineIndex == FindChar(Accumulator, LF) IN
    IF NewlineIndex = 0
    THEN [acc |-> Accumulator, lines |-> OutLines]
    ELSE LET Line == TrimStartAndEnd(SubSeq(Accumulator, 1, NewlineIndex - 1))
             Rest == SubSeq(Accumulator, NewlineIndex + 1, Len(Accumulator))
         IN  [acc |-> Rest, lines |-> IF Line # <<>> THEN Append(OutLines, Line)
                                                      ELSE OutLines]

\* Strands_SplitLines: [acc |-> what stays in the accumulator, lines |-> OutLines]
RECURSIVE Strands_SplitLines(_, _)
Strands_SplitLines(Accumulator, OutLines) ==
    LET NewlineIndex == FindChar(Accumulator, LF) IN
    IF NewlineIndex = 0
    THEN [acc |-> Accumulator, lines |-> OutLines]
    ELSE LET Line    == TrimStartAndEnd(SubSeq(Accumulator, 1, NewlineIndex - 1))
             Rest    == SubSeq(Accumulator, NewlineIndex + 1, Len(Accumulator))
             NoCR    == IF Len(Line) > 0 /\ Line[Len(Line)] = CR
                        THEN SubSeq(Line, 1, Len(Line) - 1)
                        ELSE Line
         IN  Strands_SplitLines(Rest, IF Line # <<>> THEN Append(OutLines, NoCR)
                                                      ELSE OutLines)

\* ------------------------------------------------------------------ JSON
\* One member of a JSON object: its key, the EJson type of its value, and the value.
Member(k, t, n, s, b) == [key |-> k, ty |-> t, num |-> n, str |-> s, bool |-> b]

MemberTokens ==
    {"cmd:jump", "cmd:JUMP", "cmd:move", "cmd:look", "cmd:sprint", "cmd:dance",
     "cmd:state", "cmd:screenshot", "cmd:7", "path:p", "showUI:true",
     "forward:1", "forward:2", "forward:3", "forward:-2", "forward:x",
     "right:-3", "right:1", "duration:0", "duration:1", "duration:-1",
     "yawRate:90", "pitchRate:-30", "duration:x", "yawRate:x",
     "enabled:true", "enabled:false", "enabled:1", "enabled:yes"}

\* str is the text of the value as FJsonValue::TryGetString gives it
MemberOf(tok) ==
    CASE tok = "cmd:jump"       -> Member("cmd", "String", 0, "jump", FALSE)
      [] tok = "cmd:JUMP"       -> Member("cmd", "String", 0, "JUMP", FALSE)
      [] tok = "cmd:move"       -> Member("cmd", "String", 0, "move", FALSE)
      [] tok = "cmd:look"       -> Member("cmd", "String", 0, "look", FALSE)
      [] tok = "cmd:sprint"     -> Member("cmd", "String", 0, "sprint", FALSE)
      [] tok = "cmd:dance"      -> Member("cmd", "String", 0, "dance", FALSE)
      [] tok = "cmd:state"      -> Member("cmd", "String", 0, "state", FALSE)
      [] tok = "cmd:screenshot" -> Member("cmd", "String", 0, "screenshot", FALSE)
      [] tok = "cmd:7"          -> Member("cmd", "Number", 7, "7", FALSE)
      [] tok = "path:p"         -> Member("path", "String", 0, "p", FALSE)
      [] tok = "showUI:true"    -> Member("showUI", "Boolean", 0, "true", TRUE)
      [] tok = "forward:1"      -> Member("forward", "Number", 1, "1", FALSE)
      [] tok = "forward:2"      -> Member("forward", "Number", 2, "2", FALSE)
      [] tok = "forward:3"      -> Member("forward", "Number", 3, "3", FALSE)
      [] tok = "forward:-2"     -> Member("forward", "Number", -2, "-2", FALSE)
      [] tok = "forward:x"      -> Member("forward", "String", 0, "x", FALSE)
      [] tok = "right:-3"       -> Member("right", "Number", -3, "-3", FALSE)
      [] tok = "right:1"        -> Member("right", "Number", 1, "1", FALSE)
      [] tok = "duration:0"     -> Member("duration", "Number", 0, "0", FALSE)
      [] tok = "duration:1"     -> Member("duration", "Number", 1, "1", FALSE)
      [] tok = "duration:-1"    -> Member("duration", "Number", -1, "-1", FALSE)
      [] tok = "duration:x"     -> Member("duration", "String", 0, "x", FALSE)
      [] tok = "yawRate:x"      -> Member("yawRate", "String", 0, "x", FALSE)
      [] tok = "yawRate:90"     -> Member("yawRate", "Number", 90, "90", FALSE)
      [] tok = "pitchRate:-30"  -> Member("pitchRate", "Number", -30, "-30", FALSE)
      [] tok = "enabled:true"   -> Member("enabled", "Boolean", 0, "true", TRUE)
      [] tok = "enabled:false"  -> Member("enabled", "Boolean", 0, "false", FALSE)
      [] tok = "enabled:1"      -> Member("enabled", "Number", 1, "1", FALSE)
      [] tok = "enabled:yes"    -> Member("enabled", "String", 0, "yes", FALSE)

\* FJsonSerializer::Deserialize into a TSharedPtr<FJsonObject>: white space between
\* tokens is skipped; it succeeds only for "{" members "}", and the object is the
\* set of its members.
JsonTokens(Line) == SelectSeq(Line, LAMBDA t : ~IsWhitespace(t))

IsJsonObject(Line) ==
    LET T == JsonTokens(Line) IN
    /\ Len(T) >= 2
    /\ T[1] = "{"
    /\ T[Len(T)] = "}"
    /\ \A i \in 2..(Len(T) - 1) : T[i] \in MemberTokens

Deserialize(Line) ==
    LET T == JsonTokens(Line) IN {MemberOf(T[i]) : i \in 2..(Len(T) - 1)}

HasField(Obj, k) == \E m \in Obj : m.key = k
HasTypedField(Obj, k, t) == \E m \in Obj : m.key = k /\ m.ty = t
Field(Obj, k) == CHOOSE m \in Obj : m.key = k

GetNumberField(Obj, k) == Field(Obj, k).num
GetBoolField(Obj, k) == Field(Obj, k).bool
\* FJsonObject::GetStringField: "" when the member is missing
GetStringField(Obj, k) == IF HasField(Obj, k) THEN Field(Obj, k).str ELSE ""

\* FString::Equals(..., ESearchCase::IgnoreCase) against a lower-case literal
ToLower(s) == IF s = "JUMP" THEN "jump" ELSE s
EqualsIgnoreCase(s, lit) == ToLower(s) = lit

\* FJsonObject::TryGetBoolField -> FJsonValue::TryGetBool: a Boolean gives its value,
\* a Number gives (Value != 0), a String gives FString::ToBool.
TryGetBoolField(Obj, k) ==
    LET m == Field(Obj, k) IN
    CASE m.ty = "Boolean" -> [ok |-> TRUE, val |-> m.bool]
      [] m.ty = "Number"  -> [ok |-> TRUE, val |-> m.num # 0]
      [] OTHER            -> [ok |-> TRUE, val |-> m.str \in {"true", "yes", "on", "1"}]

\* ------------------------------------------------------------ state
VARIABLES
    phase,                 \* life of the subsystem object
    Listener,              \* TUniquePtr<FTcpListener>::IsValid()
    listening,             \* the listener's own socket is bound and accepting
    bRunning,
    Clients,               \* TArray<FStrandsClientState>
    socks,                 \* every FSocket the listener has handed out
    tasks,                 \* AsyncTask(GameThread) lambdas not yet run, by socket
    MoveActions,
    LookActions,
    PendingJumpCount,
    PendingSprintEnabled,  \* TOptional<bool>: <<>> or <<b>>
    now,                   \* FPlatformTime::Seconds()
    pawn,                  \* what the first player controller possesses
    MaxWalkSpeed,          \* of the character's movement component
    frame,                 \* what the last Tick did: the axes it resolved, the calls
                           \* it made on the pawn, how many commands its poll
                           \* ingested, the sockets its poll closed; and the Jump()
                           \* calls made so far
    cmdLog,                \* every command ProcessLine has recognised, in order
    sent,                  \* everything each peer has written to its socket
    sends,                 \* how many writes the peers have made
    mark,                  \* length of cmdLog at the last resolve pass
    startCall,             \* the last StartServer call: whether it created a listener,
                           \* whether that listener could bind, and the value returned
    op,                    \* the operation that ran last
    scene,                 \* what a line trace from the pawn meets, per probe
    snapshot,              \* the world state last written to a file: <<>> or <<s>>
    shots                  \* every FScreenshotRequest::RequestScreenshot made

vars == <<phase, Listener, listening, bRunning, Clients, socks, tasks, MoveActions,
          LookActions, PendingJumpCount, PendingSprintEnabled, now, pawn,
          MaxWalkSpeed, frame, cmdLog, sent, sends, mark, startCall, op, scene,
          snapshot, shots>>

PawnKinds == {"None", "Pawn", "Character", "CharacterNoMoveComp"}

\* Strands_GetControlledCharacter / Strands_GetControlledPawn
Strands_GetControlledCharacter(p) == p \in {"Character", "CharacterNoMoveComp"}
Strands_GetControlledPawn(p) == p # "None"
GetCharacterMovement(p) == p = "Character"

NoCalls == [move |-> <<>>, jumps |-> 0, look |-> <<>>, speed |-> <<>>]

\* The state the game-thread handlers read and write, as one record.
World ==
    [Clients |-> Clients, socks |-> socks, MoveActions |-> MoveActions,
     LookActions |-> LookActions, PendingJumpCount |-> PendingJumpCount,
     PendingSprintEnabled |-> PendingSprintEnabled, MaxWalkSpeed |-> MaxWalkSpeed,
     cmdLog |-> cmdLog, MoveAxis |-> <<0, 0>>, LookRate |-> <<0, 0>>,
     calls |-> NoCalls, src |-> 0, pawn |-> pawn, scene |-> scene,
     snapshot |-> snapshot, reads |-> <<>>, shots |-> shots,
     visits |-> [s \in DOMAIN socks |-> <<>>]]

\* a removal that removes nothing
RemoveNothing(arr, i) == arr

\* TArray::RemoveAtSwap
RemoveAtSwap(arr, i) ==
    IF i = Len(arr)
    THEN SubSeq(arr, 1, Len(arr) - 1)
    ELSE [SubSeq(arr, 1, Len(arr) - 1) EXCEPT ![i] = arr[Len(arr)]]

\* -------------------------------------------------------- world state
\* the result of one LineTraceSingleByChannel: whether it hit, and FHitResult::Distance
Miss == [bHit |-> FALSE, Distance |-> 0]
Hit(d) == [bHit |-> TRUE, Distance |-> d]

RangeFwd == 200
RangeSide == 200
RangeDown == 300
NearThreshold == 100

\* a trace that reports 0 when it hits nothing
TraceDistZeroOnMiss(HitResult, Length) ==
    IF HitResult.bHit THEN HitResult.Distance ELSE 0

\* the TraceDist lambda: bHit ? Hit.Distance : Length
TraceDist(HitResult, Length) ==
    IF HitResult.bHit THEN HitResult.Distance ELSE Length

\* blocked with the lower limit included
BlockedForwardFromZero(ForwardWaist) == ForwardWaist >= 0 /\ ForwardWaist < NearThreshold

\* ForwardWaist > 0.f && ForwardWaist < 100.f
BlockedForward(ForwardWaist) == ForwardWaist > 0 /\ ForwardWaist < NearThreshold

\* BuildWorldState: the pawn, trace and blocked members of the object it fills
\* (ts, pos, rot, vel and move are left out); sc is what each of the six traces meets
BuildWorldState(p, sc) ==
    LET Character    == Strands_GetControlledCharacter(p)
        Pawn         == Character \/ Strands_GetControlledPawn(p)
        ForwardKnee  == IF Pawn THEN TraceDist(sc.knee, RangeFwd) ELSE 0
        ForwardWaist == IF Pawn THEN TraceDist(sc.waist, RangeFwd) ELSE 0
        ForwardChest == IF Pawn THEN TraceDist(sc.chest, RangeFwd) ELSE 0
        LeftWaist    == IF Pawn THEN TraceDist(sc.left, RangeSide) ELSE 0
        RightWaist   == IF Pawn THEN TraceDist(sc.right, RangeSide) ELSE 0
        DownDist     == IF Pawn THEN TraceDist(sc.down, RangeDown) ELSE 0
    IN [pawn    |-> Pawn,
        trace   |-> [forward |-> [knee |-> ForwardKnee, waist |-> ForwardWaist,
                                  chest |-> ForwardChest],
                     left    |-> [waist |-> LeftWaist],
                     right   |-> [waist |-> RightWaist],
                     down    |-> [dist |-> DownDist]],
        blocked |-> [forward |-> BlockedForward(ForwardWaist)]]

\* a state command answered only when no snapshot has been written yet
WriteWorldStateToFileOnce(W, OutPath) ==
    IF W.snapshot # <<>> THEN W
    ELSE [W EXCEPT !.snapshot =
            <<[path   |-> OutPath,
               state  |-> BuildWorldState(W.pawn, W.scene),
               writes |-> 1,
               seen   |-> [MaxWalkSpeed |-> W.MaxWalkSpeed, calls |-> W.calls]]>>]

\* WriteWorldStateToFile: the object is built, serialized and saved at OutPath.
\* writes counts the calls of SaveStringToFile; seen is the world the builder
\* read: the walk speed as set, and the calls this frame had made on the pawn.
WriteWorldStateToFile(W, OutPath) ==
    [W EXCEPT !.snapshot =
        <<[path   |-> OutPath,
           state  |-> BuildWorldState(W.pawn, W.scene),
           writes |-> (IF @ = <<>> THEN 0 ELSE @[1].writes) + 1,
           seen   |-> [MaxWalkSpeed |-> W.MaxWalkSpeed, calls |-> W.calls]]>>]

DefaultStatePath == "WorldState/agent_state.json"

DefaultShotPath == "AutoScreenshot.png"

\* FScreenshotRequest::RequestScreenshot(OutPath, bShowUI, false)
RequestScreenshot(W, OutPath, bShowUI) ==
    [W EXCEPT !.shots = Append(@, [path |-> OutPath, showUI |-> bShowUI])]

\* ------------------------------------------------------- ProcessLine
\* a cmdLog entry: the line ProcessLine was handed, the socket it came from, the
\* time, and what it was decoded to: the command with its fields and, for move
\* and look, the EndTime given to its action; cmd is "none" for a line that was
\* discarded and "noop" for a sprint without a usable enabled
Command(W, Line, c, a, b, d, en, Now, End) ==
    [sock |-> W.src, line |-> Line, cmd |-> c, a |-> a, b |-> b, d |-> d, en |-> en,
     at |-> Now, end |-> End]

Logged(W, Line, c, Now) ==
    [W EXCEPT !.cmdLog = Append(@, Command(W, Line, c, 0, 0, 0, FALSE, Now, 0))]

\* the last else branch taken for a jump
UnknownCmdJumps(W, Line, Now) ==
    [Logged(W, Line, "none", Now) EXCEPT !.PendingJumpCount = @ + 1]

\* the last else branch: a warning is logged
UnknownCmd(W, Line, Now) == Logged(W, Line, "none", Now)

\* the latch written only when it is not set yet
AssignIfUnset(Latch, bEnabled) == IF Latch = <<>> THEN <<bEnabled>> ELSE Latch

\* PendingSprintEnabled = bEnabled
AssignPendingSprint(Latch, bEnabled) == <<bEnabled>>

\* the new action put in place of the pool
ReplaceActions(Actions, Action) == <<Action>>

\* MoveActions.Add(MoveTemp(Action)) / LookActions.Add(MoveTemp(Action))
AddAction(Actions, Action) == Append(Actions, Action)

\* a numeric member read whenever the member is there, whatever its type
NumberFieldIfPresent(Obj, k, dflt) ==
    IF HasField(Obj, k) THEN GetNumberField(Obj, k) ELSE dflt

\* if (Obj->HasTypedField<EJson::Number>(k)) X = Obj->GetNumberField(k);
NumberFieldOr(Obj, k, dflt) ==
    IF HasTypedField(Obj, k, "Number") THEN GetNumberField(Obj, k) ELSE dflt

ProcessLine(W, Line, Now) ==
    IF ~IsJsonObject(Line) THEN Logged(W, Line, "none", Now)
    ELSE
    LET Obj == Deserialize(Line)
        Cmd == GetStringField(Obj, "cmd")
        Num(k, dflt) == NumberFieldOr(Obj, k, dflt)
    IN
    IF EqualsIgnoreCase(Cmd, "move") THEN
        LET Forward  == Num("forward", 0)
            Right    == Num("right", 0)
            Duration == Num("duration", DefaultMoveDuration)
            Action   == [Axis |-> <<Forward, Right>>, EndTime |-> Now + Max(0, Duration)]
        IN [W EXCEPT !.MoveActions = AddAction(@, Action),
                     !.cmdLog = Append(@, Command(W, Line, "move", Forward, Right, Duration,
                                                  FALSE, Now, Action.EndTime))]
    ELSE IF EqualsIgnoreCase(Cmd, "look") THEN
        LET YawRate   == Num("yawRate", 0)
            PitchRate == Num("pitchRate", 0)
            Duration  == Num("duration", DefaultLookDuration)
            Action    == [Rate |-> <<YawRate, PitchRate>>, EndTime |-> Now + Max(0, Duration)]
        IN [W EXCEPT !.LookActions = AddAction(@, Action),
                     !.cmdLog = Append(@, Command(W, Line, "look", YawRate, PitchRate, Duration,
                                                  FALSE, Now, Action.EndTime))]
    ELSE IF EqualsIgnoreCase(Cmd, "jump") THEN
        [Logged(W, Line, "jump", Now) EXCEPT !.PendingJumpCount = @ + 1]
    ELSE IF EqualsIgnoreCase(Cmd, "sprint") THEN
        IF HasField(Obj, "enabled") /\ TryGetBoolField(Obj, "enabled").ok
        THEN LET bEnabled == TryGetBoolField(Obj, "enabled").val IN
             [W EXCEPT !.PendingSprintEnabled = AssignPendingSprint(@, bEnabled),
                       !.cmdLog = Append(@, Command(W, Line, "sprint", 0, 0, 0, bEnabled,
                                                    Now, 0))]
        ELSE Logged(W, Line, "noop", Now)
    ELSE IF EqualsIgnoreCase(Cmd, "screenshot") THEN
        LET OutPath == IF HasTypedField(Obj, "path", "String")
                       THEN GetStringField(Obj, "path")
                       ELSE DefaultShotPath
            bShowUI == IF HasTypedField(Obj, "showUI", "Boolean")
                       THEN GetBoolField(Obj, "showUI")
                       ELSE FALSE
        IN RequestScreenshot(Logged(W, Line, "screenshot", Now), OutPath, bShowUI)
    ELSE IF EqualsIgnoreCase(Cmd, "state") THEN
        LET OutPath == IF HasTypedField(Obj, "path", "String")
                       THEN GetStringField(Obj, "path")
                       ELSE DefaultStatePath
        IN WriteWorldStateToFile(Logged(W, Line, "state", Now), OutPath)
    ELSE UnknownCmd(W, Line, Now)

RECURSIVE ProcessLines(_, _, _)
ProcessLines(W, Lines, Now) ==
    IF Lines = <<>> THEN W
    ELSE ProcessLines(ProcessLine(W, Head(Lines), Now), Tail(Lines), Now)

\* ------------------------------------------------- sockets and drain
\* closes and destroys count the calls of FSocket::Close and of DestroySocket
FreeSocket == [st |-> "free", rx |-> <<>>, closed |-> FALSE, destroyed |-> FALSE,
               closes |-> 0, destroys |-> 0]

\* FSocket::Close followed by ISocketSubsystem::DestroySocket
\* the connection closed after what is left in its buffer was taken as a line
CloseAndDestroyFlushing(W, s) ==
    LET i    == CHOOSE k \in 1..Len(W.Clients) : W.Clients[k].Socket = s
        Rest == W.Clients[i].Pending
        W1   == IF Rest = <<>> THEN W
                ELSE [W EXCEPT !.cmdLog = Append(@, [sock |-> s, line |-> Rest, cmd |-> "none",
                                                      a |-> 0, b |-> 0, d |-> 0, en |-> FALSE,
                                                      at |-> 0, end |-> 0])]
    IN [W1 EXCEPT !.socks[s].closed = TRUE, !.socks[s].destroyed = TRUE,
                  !.socks[s].closes = @ + 1, !.socks[s].destroys = @ + 1]

CloseAndDestroy(W, s) ==
    [W EXCEPT !.socks[s].closed = TRUE, !.socks[s].destroyed = TRUE,
              !.socks[s].closes = @ + 1, !.socks[s].destroys = @ + 1]

\* one call of Recv: the bytes HasPendingData reported, the size of the buffer
\* handed to Recv, and ActuallyRead (0 when Recv fails)
ReadOf(s, avail, asked, got) == [sock |-> s, avail |-> avail, asked |-> asked, got |-> got]

\* the read loop with one accumulator, that of the first entry, for every client
RECURSIVE RecvLoopSharedBuffer(_, _, _)
RecvLoopSharedBuffer(W, i, Now) ==
    LET Client      == W.Clients[i]
        Sock        == W.socks[Client.Socket]
        PendingSize == Len(Sock.rx)
    IN
    IF PendingSize = 0 THEN W
    ELSE IF Sock.st = "error"
    THEN [W EXCEPT !.reads = Append(@, ReadOf(Client.Socket, PendingSize,
                                              Min(PendingSize, ChunkLimit), 0))]
    ELSE
    LET ToRead == Min(PendingSize, ChunkLimit)
        Chunk  == SubSeq(Sock.rx, 1, ToRead)
        Split  == Strands_SplitLines(W.Clients[1].Pending \o Chunk, <<>>)
        W1     == [W EXCEPT !.socks[Client.Socket].rx = SubSeq(Sock.rx, ToRead + 1, PendingSize),
                            !.Clients[1].Pending = Split.acc,
                            !.src = Client.Socket,
                            !.reads = Append(@, ReadOf(Client.Socket, PendingSize, ToRead, ToRead))]
    IN RecvLoopSharedBuffer(ProcessLines(W1, Split.lines, Now), i, Now)

\* the read loop splitting each chunk on its own: what was buffered is dropped
RECURSIVE RecvLoopChunkOnly(_, _, _)
RecvLoopChunkOnly(W, i, Now) ==
    LET Client      == W.Clients[i]
        Sock        == W.socks[Client.Socket]
        PendingSize == Len(Sock.rx)
    IN
    IF PendingSize = 0 THEN W
    ELSE IF Sock.st = "error"
    THEN [W EXCEPT !.reads = Append(@, ReadOf(Client.Socket, PendingSize,
                                              Min(PendingSize, ChunkLimit), 0))]
    ELSE
    LET ToRead == Min(PendingSize, ChunkLimit)
        Chunk  == SubSeq(Sock.rx, 1, ToRead)
        Split  == Strands_SplitLines(Chunk, <<>>)
        W1     == [W EXCEPT !.socks[Client.Socket].rx = SubSeq(Sock.rx, ToRead + 1, PendingSize),
                            !.Clients[i].Pending = Split.acc,
                            !.src = Client.Socket,
                            !.reads = Append(@, ReadOf(Client.Socket, PendingSize, ToRead, ToRead))]
    IN RecvLoopChunkOnly(ProcessLines(W1, Split.lines, Now), i, Now)

\* the read loop with a buffer as large as what is pending
RECURSIVE RecvLoopWholeRead(_, _, _)
RecvLoopWholeRead(W, i, Now) ==
    LET Client      == W.Clients[i]
        Sock        == W.socks[Client.Socket]
        PendingSize == Len(Sock.rx)
    IN
    IF PendingSize = 0 THEN W
    ELSE IF Sock.st = "error"
    THEN [W EXCEPT !.reads = Append(@, ReadOf(Client.Socket, PendingSize, PendingSize, 0))]
    ELSE
    LET ToRead == PendingSize
        Chunk  == SubSeq(Sock.rx, 1, ToRead)
        Split  == Strands_SplitLines(Client.Pending \o Chunk, <<>>)
        W1     == [W EXCEPT !.socks[Client.Socket].rx = SubSeq(Sock.rx, ToRead + 1, PendingSize),
                            !.Clients[i].Pending = Split.acc,
                            !.src = Client.Socket,
                            !.reads = Append(@, ReadOf(Client.Socket, PendingSize, ToRead, ToRead))]
    IN RecvLoopWholeRead(ProcessLines(W1, Split.lines, Now), i, Now)

\* The read loop that PollClients and DrainClient share: while HasPendingData,
\* Recv at most ChunkLimit, append to Pending, split, process every line.
RECURSIVE RecvLoop(_, _, _)
RecvLoop(W, i, Now) ==
    LET Client      == W.Clients[i]
        Sock        == W.socks[Client.Socket]
        PendingSize == Len(Sock.rx)
    IN
    IF PendingSize = 0 THEN W
    ELSE IF Sock.st = "error"
    THEN [W EXCEPT !.reads = Append(@, ReadOf(Client.Socket, PendingSize,
                                              Min(PendingSize, ChunkLimit), 0))]
    ELSE
    LET ToRead == Min(PendingSize, ChunkLimit)
        Chunk  == SubSeq(Sock.rx, 1, ToRead)
        Split  == Strands_SplitLines(Client.Pending \o Chunk, <<>>)
        W1     == [W EXCEPT !.socks[Client.Socket].rx = SubSeq(Sock.rx, ToRead + 1, PendingSize),
                            !.Clients[i].Pending = Split.acc,
                            !.src = Client.Socket,
                            !.reads = Append(@, ReadOf(Client.Socket, PendingSize, ToRead, ToRead))]
    IN RecvLoop(ProcessLines(W1, Split.lines, Now), i, Now)

DrainClient(W, i, Now) ==
    IF W.Clients[i].Socket = 0 THEN W ELSE RecvLoop(W, i, Now)

\* what a poll pass does with a socket is noted, in order, in visits[s]: its
\* read loop entered ("drain"), GetConnectionState called on it ("check")
Visited(W, s, what) == [W EXCEPT !.visits[s] = Append(@, what)]

\* PollClients with the connection state looked at before the read loop
RECURSIVE PollClientsCheckFirst(_, _, _)
PollClientsCheckFirst(W, i, Now) ==
    IF i = 0 THEN W
    ELSE IF W.Clients[i].Socket = 0
    THEN PollClientsCheckFirst([W EXCEPT !.Clients = RemoveAtSwap(@, i)], i - 1, Now)
    ELSE
    LET s  == W.Clients[i].Socket
        W0 == Visited(W, s, "check")
    IN
    IF W.socks[s].st # "connected"
    THEN PollClientsCheckFirst([CloseAndDestroy(W0, s) EXCEPT !.Clients = RemoveAtSwap(@, i)],
                               i - 1, Now)
    ELSE PollClientsCheckFirst(RecvLoop(Visited(W0, s, "drain"), i, Now), i - 1, Now)

\* PollClients, from index i down to 1
RECURSIVE PollClientsFrom(_, _, _)
PollClientsFrom(W, i, Now) ==
    IF i = 0 THEN W
    ELSE IF W.Clients[i].Socket = 0
    THEN PollClientsFrom([W EXCEPT !.Clients = RemoveAtSwap(@, i)], i - 1, Now)
    ELSE
    LET s         == W.Clients[i].Socket
        W1        == Visited(RecvLoop(Visited(W, s, "drain"), i, Now), s, "check")
        ConnState == W1.socks[s].st
    IN IF ConnState # "connected"
       THEN PollClientsFrom([CloseAndDestroy(W1, s) EXCEPT !.Clients = RemoveAtSwap(@, i)],
                            i - 1, Now)
       ELSE PollClientsFrom(W1, i - 1, Now)

\* PollClients walking forward and stepping on after a removal
RECURSIVE PollClientsStepOver(_, _, _)
PollClientsStepOver(W, i, Now) ==
    IF i > Len(W.Clients) THEN W
    ELSE IF W.Clients[i].Socket = 0
    THEN PollClientsStepOver([W EXCEPT !.Clients = RemoveAtSwap(@, i)], i + 1, Now)
    ELSE
    LET s  == W.Clients[i].Socket
        W1 == Visited(RecvLoop(Visited(W, s, "drain"), i, Now), s, "check")
    IN IF W1.socks[s].st # "connected"
       THEN PollClientsStepOver([CloseAndDestroy(W1, s) EXCEPT !.Clients = RemoveAtSwap(@, i)],
                                i + 1, Now)
       ELSE PollClientsStepOver(W1, i + 1, Now)

PollClientsForward(W, Now) == PollClientsStepOver(W, 1, Now)

\* PollClients closing and destroying a socket and leaving its entry as it is
RECURSIVE PollClientsLeaving(_, _, _)
PollClientsLeaving(W, i, Now) ==
    IF i = 0 THEN W
    ELSE IF W.Clients[i].Socket = 0
    THEN PollClientsLeaving([W EXCEPT !.Clients = RemoveAtSwap(@, i)], i - 1, Now)
    ELSE
    LET s  == W.Clients[i].Socket
        W1 == Visited(RecvLoop(Visited(W, s, "drain"), i, Now), s, "check")
    IN IF W1.socks[s].st # "connected"
       THEN PollClientsLeaving(CloseAndDestroy(W1, s), i - 1, Now)
       ELSE PollClientsLeaving(W1, i - 1, Now)

PollClientsKeepEntries(W, Now) == PollClientsLeaving(W, Len(W.Clients), Now)

\* PollClients from the first registry index up to the last
RECURSIVE PollClientsUp(_, _, _)
PollClientsUp(W, i, Now) ==
    IF i > Len(W.Clients) THEN W
    ELSE IF W.Clients[i].Socket = 0
    THEN PollClientsUp([W EXCEPT !.Clients = RemoveAtSwap(@, i)], i, Now)
    ELSE
    LET s  == W.Clients[i].Socket
        W1 == Visited(RecvLoop(Visited(W, s, "drain"), i, Now), s, "check")
    IN IF W1.socks[s].st # "connected"
       THEN PollClientsUp([CloseAndDestroy(W1, s) EXCEPT !.Clients = RemoveAtSwap(@, i)], i, Now)
       ELSE PollClientsUp(W1, i + 1, Now)

PollClientsAscending(W, Now) == PollClientsUp(W, 1, Now)

PollClients(W, Now) == PollClientsFrom(W, Len(W.Clients), Now)

\* ------------------------------------------- resolve and apply
Clamp(x, lo, hi) == IF x < lo THEN lo ELSE IF x > hi THEN hi ELSE x

\* an action kept through the frame at which its window ends
ExpiredAfter(EndTime, Now) == EndTime < Now

\* the test of both sweeps: EndTime <= Now
Expired(EndTime, Now) == EndTime <= Now

\* SweepMove with the clamp applied to every action instead of to the sum
RECURSIVE SweepMoveClampEach(_, _, _, _)
SweepMoveClampEach(Actions, i, Now, Sum) ==
    IF i = 0 THEN [arr |-> Actions, sum |-> Sum]
    ELSE IF Expired(Actions[i].EndTime, Now)
    THEN SweepMoveClampEach(RemoveAtSwap(Actions, i), i - 1, Now, Sum)
    ELSE SweepMoveClampEach(Actions, i - 1, Now,
                            <<Sum[1] + Clamp(Actions[i].Axis[1], -1, 1),
                              Sum[2] + Clamp(Actions[i].Axis[2], -1, 1)>>)

\* the sweep-and-sum loop over MoveActions, from index i down to 1
RECURSIVE SweepMove(_, _, _, _)
SweepMove(Actions, i, Now, Sum) ==
    IF i = 0 THEN [arr |-> Actions, sum |-> Sum]
    ELSE IF Expired(Actions[i].EndTime, Now)
    THEN SweepMove(RemoveAtSwap(Actions, i), i - 1, Now, Sum)
    ELSE SweepMove(Actions, i - 1, Now,
                   <<Sum[1] + Actions[i].Axis[1], Sum[2] + Actions[i].Axis[2]>>)

ClampMoveAxis(Sum) == <<Clamp(Sum[1], -1, 1), Clamp(Sum[2], -1, 1)>>

\* SweepLook with its sum clamped to [-1, 1] as the move sum is
RECURSIVE SweepLookSaturating(_, _, _, _)
SweepLookSaturating(Actions, i, Now, Sum) ==
    IF i = 0 THEN [arr |-> Actions, sum |-> <<Clamp(Sum[1], -1, 1), Clamp(Sum[2], -1, 1)>>]
    ELSE IF Expired(Actions[i].EndTime, Now)
    THEN SweepLookSaturating(RemoveAtSwap(Actions, i), i - 1, Now, Sum)
    ELSE SweepLookSaturating(Actions, i - 1, Now,
                             <<Sum[1] + Actions[i].Rate[1], Sum[2] + Actions[i].Rate[2]>>)

\* the sweep-and-sum loop over LookActions
RECURSIVE SweepLook(_, _, _, _)
SweepLook(Actions, i, Now, Sum) ==
    IF i = 0 THEN [arr |-> Actions, sum |-> Sum]
    ELSE IF Expired(Actions[i].EndTime, Now)
    THEN SweepLook(RemoveAtSwap(Actions, i), i - 1, Now, Sum)
    ELSE SweepLook(Actions, i - 1, Now,
                   <<Sum[1] + Actions[i].Rate[1], Sum[2] + Actions[i].Rate[2]>>)

IsNearlyZero(v) == v = <<0, 0>>

\* PendingJumpCount left as it is after the jump loop
JumpCountKept(Count, Character) == Count

\* PendingJumpCount after "if (Character) { ... if (PendingJumpCount > 0) { loop;
\* PendingJumpCount = 0; } }"
JumpCountAfter(Count, Character) == IF Character /\ Count > 0 THEN 0 ELSE Count

\* the resolve pass summing the live actions without writing the swept pools back
ApplyScheduledActionsKeepAll(W, p, Now, DeltaSeconds) ==
    LET Mv        == SweepMove(W.MoveActions, Len(W.MoveActions), Now, <<0, 0>>)
        MoveAxis  == ClampMoveAxis(Mv.sum)
        Lk        == SweepLook(W.LookActions, Len(W.LookActions), Now, <<0, 0>>)
        LookRate  == Lk.sum
        Character == Strands_GetControlledCharacter(p)
        Pawn      == Character \/ Strands_GetControlledPawn(p)
        Jumping   == Character /\ W.PendingJumpCount > 0
    IN [W EXCEPT
          !.MoveAxis = MoveAxis,
          !.LookRate = LookRate,
          !.calls.move = IF Character /\ ~IsNearlyZero(MoveAxis) THEN <<MoveAxis>> ELSE <<>>,
          !.calls.jumps = IF Jumping THEN W.PendingJumpCount ELSE 0,
          !.PendingJumpCount = JumpCountAfter(@, Character),
          !.calls.look = IF Pawn /\ ~IsNearlyZero(LookRate)
                         THEN << <<LookRate[1] * DeltaSeconds, LookRate[2] * DeltaSeconds>> >>
                         ELSE <<>>]

\* the resolve pass making its movement and jump calls on any possessed pawn
ApplyScheduledActionsAnyPawn(W, p, Now, DeltaSeconds) ==
    LET Mv        == SweepMove(W.MoveActions, Len(W.MoveActions), Now, <<0, 0>>)
        MoveAxis  == ClampMoveAxis(Mv.sum)
        Lk        == SweepLook(W.LookActions, Len(W.LookActions), Now, <<0, 0>>)
        LookRate  == Lk.sum
        Pawn      == Strands_GetControlledCharacter(p) \/ Strands_GetControlledPawn(p)
        Jumping   == Pawn /\ W.PendingJumpCount > 0
    IN [W EXCEPT
          !.MoveActions = Mv.arr,
          !.LookActions = Lk.arr,
          !.MoveAxis = MoveAxis,
          !.LookRate = LookRate,
          !.calls.move = IF Pawn /\ ~IsNearlyZero(MoveAxis) THEN <<MoveAxis>> ELSE <<>>,
          !.calls.jumps = IF Jumping THEN W.PendingJumpCount ELSE 0,
          !.PendingJumpCount = JumpCountAfter(@, Pawn),
          !.calls.look = IF Pawn /\ ~IsNearlyZero(LookRate)
                         THEN << <<LookRate[1] * DeltaSeconds, LookRate[2] * DeltaSeconds>> >>
                         ELSE <<>>]

ApplyScheduledActions(W, p, Now, DeltaSeconds) ==
    LET Mv        == SweepMove(W.MoveActions, Len(W.MoveActions), Now, <<0, 0>>)
        MoveAxis  == ClampMoveAxis(Mv.sum)
        Lk        == SweepLook(W.LookActions, Len(W.LookActions), Now, <<0, 0>>)
        LookRate  == Lk.sum
        Character == Strands_GetControlledCharacter(p)
        Pawn      == Character \/ Strands_GetControlledPawn(p)
        Jumping   == Character /\ W.PendingJumpCount > 0
    IN [W EXCEPT
          !.MoveActions = Mv.arr,
          !.LookActions = Lk.arr,
          !.MoveAxis = MoveAxis,
          !.LookRate = LookRate,
          !.calls.move = IF Character /\ ~IsNearlyZero(MoveAxis) THEN <<MoveAxis>> ELSE <<>>,
          !.calls.jumps = IF Jumping THEN W.PendingJumpCount ELSE 0,
          !.PendingJumpCount = JumpCountAfter(@, Character),
          !.calls.look = IF Pawn /\ ~IsNearlyZero(LookRate)
                         THEN << <<LookRate[1] * DeltaSeconds, LookRate[2] * DeltaSeconds>> >>
                         ELSE <<>>]

\* the latch left set after it has been applied
SprintLatchKept(Latch) == Latch

\* PendingSprintEnabled.Reset()
SprintLatchAfter(Latch) == <<>>

\* ApplySprintIfPending resetting the latch only when it has set the speed
ApplySprintIfPendingKeptForCharacter(W, p) ==
    IF W.PendingSprintEnabled = <<>> THEN W
    ELSE
    LET Speed == IF W.PendingSprintEnabled[1] THEN SprintWalkSpeed ELSE NormalWalkSpeed
        Set   == Strands_GetControlledCharacter(p) /\ GetCharacterMovement(p)
    IN [W EXCEPT !.MaxWalkSpeed = IF Set THEN Speed ELSE @,
                 !.calls.speed = IF Set THEN Append(@, Speed) ELSE @,
                 !.PendingSprintEnabled = IF Set THEN SprintLatchAfter(@) ELSE @]

ApplySprintIfPending(W, p) ==
    IF W.PendingSprintEnabled = <<>> THEN W
    ELSE
    LET Speed == IF W.PendingSprintEnabled[1] THEN SprintWalkSpeed ELSE NormalWalkSpeed
        Set   == Strands_GetControlledCharacter(p) /\ GetCharacterMovement(p)
    IN [W EXCEPT !.MaxWalkSpeed = IF Set THEN Speed ELSE @,
                 !.calls.speed = IF Set THEN Append(@, Speed) ELSE @,
                 !.PendingSprintEnabled = SprintLatchAfter(@)]

\* ------------------------------------------------------ what peers send
Obj1(m)         == <<"{", m, "}">>
Obj2(m1, m2)    == <<"{", m1, m2, "}">>
Obj3(m1, m2, m3) == <<"{", m1, m2, m3, "}">>

JumpLF   == Obj1("cmd:jump") \o <<LF>>
MoveCRLF == Obj2("cmd:move", "forward:1") \o <<CR, LF>>

Streams ==
    { JumpLF \o MoveCRLF,
      JumpLF,
      <<"not json", LF>> \o JumpLF,
      Obj1("cmd:dance") \o <<LF>>,
      Obj2("cmd:move", "forward:2") \o <<LF>> \o Obj2("cmd:move", "right:-3") \o <<LF>>,
      Obj3("cmd:move", "forward:3", "duration:1") \o <<LF>>,
      Obj2("cmd:move", "forward:-2") \o <<LF>>,
      Obj2("cmd:sprint", "enabled:true") \o <<LF>>,
      Obj2("cmd:sprint", "enabled:false") \o <<CR, LF>>,
      Obj3("cmd:look", "yawRate:90", "duration:1") \o <<LF>>,
      <<"{", "cmd:jump">>,
      <<"}", LF>> }

Sockets == 1..MaxSockets

\* ------------------------------------------------------------ Init
\* The object as constructed (ph = "constructed", run = FALSE), or as Initialize
\* leaves it when bAutoStart is set and the port is free.
InitState(ph, run, p) ==
    /\ phase = ph
    /\ Listener = run
    /\ listening = run
    /\ bRunning = run
    /\ Clients = <<>>
    /\ socks = [s \in Sockets |-> FreeSocket]
    /\ tasks = <<>>
    /\ MoveActions = <<>>
    /\ LookActions = <<>>
    /\ PendingJumpCount = 0
    /\ PendingSprintEnabled = <<>>
    /\ now = 0
    /\ pawn = p
    /\ MaxWalkSpeed = 0        \* not yet set by the server
    /\ frame = [bound |-> TRUE, MoveAxis |-> <<0, 0>>, LookRate |-> <<0, 0>>,
                calls |-> NoCalls, jumped |-> 0, ingested |-> 0, closed |-> {},
                reads |-> <<>>, visits |-> [s \in Sockets |-> <<>>]]
    /\ cmdLog = <<>>
    /\ sent = [s \in Sockets |-> <<>>]
    /\ sends = 0
    /\ mark = 0
    /\ startCall = [called |-> run, tried |-> run, bindOk |-> TRUE, ret |-> TRUE]
    /\ op = IF run THEN "Initialize" ELSE "Construct"
    /\ snapshot = <<>>
    /\ shots = <<>>

\* nothing within reach of any probe
OpenScene == [knee |-> Miss, waist |-> Miss, chest |-> Miss, left |-> Miss,
              right |-> Miss, down |-> Miss]

Init == \E p \in PawnKinds : InitState("constructed", FALSE, p) /\ scene = OpenScene

\* ------------------------------------------------- StartServer / StopServer
\* MakeUnique<FTcpListener>: the pointer it returns is never null, whatever the
\* listener's own socket did.
MakeUniqueListener(bindOk) == TRUE

\* StartServer without the early return: a listener is made on every call
StartServerAlways(bindOk) ==
    [Listener |-> TRUE, listening |-> bindOk, bRunning |-> TRUE,
     tried |-> TRUE, ret |-> TRUE]

\* StartServer as a function of the bind outcome: the new Listener, bRunning and
\* the value returned
StartServerResult(bindOk) ==
    IF bRunning \/ Listener
    THEN [Listener |-> Listener, listening |-> listening, bRunning |-> bRunning,
          tried |-> FALSE, ret |-> TRUE]
    ELSE IF ~MakeUniqueListener(bindOk)
    THEN [Listener |-> FALSE, listening |-> FALSE, bRunning |-> bRunning,
          tried |-> TRUE, ret |-> FALSE]
    ELSE [Listener |-> TRUE, listening |-> bindOk, bRunning |-> TRUE,
          tried |-> TRUE, ret |-> TRUE]

DoStart(bindOk) ==
    LET r == StartServerResult(bindOk) IN
    /\ Listener' = r.Listener
    /\ listening' = r.listening
    /\ bRunning' = r.bRunning
    /\ startCall' = [called |-> TRUE, tried |-> r.tried, bindOk |-> bindOk, ret |-> r.ret]

StartServer(bindOk) ==
    /\ phase \in {"constructed", "initialized"}
    /\ DoStart(bindOk)
    /\ op' = "StartServer"
    /\ UNCHANGED <<phase, Clients, socks, tasks, MoveActions, LookActions,
                   PendingJumpCount, PendingSprintEnabled, now, pawn, MaxWalkSpeed,
                   frame, cmdLog, sent, sends, mark, scene, snapshot, shots>>

\* Initialize: settings are snapshotted, then StartServer() if bAutoStart and the
\* world is a game world
Initialize(autoStart, bindOk) ==
    /\ phase = "constructed"
    /\ phase' = "initialized"
    /\ IF autoStart THEN DoStart(bindOk)
                    ELSE UNCHANGED <<Listener, listening, bRunning, startCall>>
    /\ op' = "Initialize"
    /\ UNCHANGED <<Clients, socks, tasks, MoveActions, LookActions,
                   PendingJumpCount, PendingSprintEnabled, now, pawn, MaxWalkSpeed,
                   frame, cmdLog, sent, sends, mark, scene, snapshot, shots>>

\* the sockets StopServer closes and destroys: those of the registered clients
RECURSIVE StopSockets(_, _)
StopSockets(sk, Cs) ==
    IF Cs = <<>> THEN sk
    ELSE IF Head(Cs).Socket # 0
    THEN StopSockets([sk EXCEPT ![Head(Cs).Socket].closed = TRUE,
                                ![Head(Cs).Socket].destroyed = TRUE,
                                ![Head(Cs).Socket].closes = @ + 1,
                                ![Head(Cs).Socket].destroys = @ + 1], Tail(Cs))
    ELSE StopSockets(sk, Tail(Cs))

\* StopServer without Clients.Empty(): the entries stay, their Socket null
DoStopNoEmpty ==
    /\ bRunning' = FALSE
    /\ socks' = StopSockets(socks, Clients)
    /\ Clients' = [i \in 1..Len(Clients) |-> [Clients[i] EXCEPT !.Socket = 0]]
    /\ Listener' = FALSE
    /\ listening' = FALSE

DoStop ==
    /\ bRunning' = FALSE
    /\ socks' = StopSockets(socks, Clients)
    /\ Clients' = <<>>
    /\ Listener' = FALSE
    /\ listening' = FALSE

\* StopServer emptying the two pools as it empties Clients
StopServerEmptiesPools ==
    /\ phase \in {"constructed", "initialized"}
    /\ DoStop
    /\ MoveActions' = <<>>
    /\ LookActions' = <<>>
    /\ op' = "StopServer"
    /\ UNCHANGED <<phase, tasks, PendingJumpCount,
                   PendingSprintEnabled, now, pawn, MaxWalkSpeed, frame, cmdLog,
                   sent, sends, mark, startCall, scene, snapshot, shots>>

StopServer ==
    /\ phase \in {"constructed", "initialized"}
    /\ DoStop
    /\ op' = "StopServer"
    /\ UNCHANGED <<phase, tasks, MoveActions, LookActions, PendingJumpCount,
                   PendingSprintEnabled, now, pawn, MaxWalkSpeed, frame, cmdLog,
                   sent, sends, mark, startCall, scene, snapshot, shots>>

Deinitialize ==
    /\ phase = "initialized"
    /\ phase' = "deinitialized"
    /\ DoStop
    /\ op' = "Deinitialize"
    /\ UNCHANGED <<tasks, MoveActions, LookActions, PendingJumpCount,
                   PendingSprintEnabled, now, pawn, MaxWalkSpeed, frame, cmdLog,
                   sent, sends, mark, startCall, scene, snapshot, shots>>

\* the object is collected: weak pointers to it stop being valid
Collect ==
    /\ phase = "deinitialized"
    /\ phase' = "destroyed"
    /\ op' = "Collect"
    /\ UNCHANGED <<Listener, listening, bRunning, Clients, socks, tasks, MoveActions,
                   LookActions, PendingJumpCount, PendingSprintEnabled, now, pawn,
                   MaxWalkSpeed, frame, cmdLog, sent, sends, mark, startCall, scene, snapshot, shots>>

\* ------------------------------------------------ listener thread, peers
\* an accept callback that adds the client to the registry itself
AcceptRegisters(s) ==
    /\ Listener /\ listening
    /\ socks[s].st = "free"
    /\ \A t \in Sockets : t < s => socks[t].st # "free"
    /\ socks' = [socks EXCEPT ![s].st = "connected"]
    /\ Clients' = Append(Clients, [Socket |-> s, Pending |-> <<>>])
    /\ op' = "Accept"
    /\ UNCHANGED <<phase, Listener, listening, bRunning, tasks, MoveActions,
                   LookActions, PendingJumpCount, PendingSprintEnabled, now, pawn,
                   MaxWalkSpeed, frame, cmdLog, sent, sends, mark, startCall, scene, snapshot, shots>>

\* OnConnectionAccepted: the lambda configures the socket and queues the
\* registration on the game thread
Accept(s) ==
    /\ Listener /\ listening
    /\ socks[s].st = "free"
    /\ \A t \in Sockets : t < s => socks[t].st # "free"
    /\ socks' = [socks EXCEPT ![s].st = "connected"]
    /\ tasks' = Append(tasks, s)
    /\ op' = "Accept"
    /\ UNCHANGED <<phase, Listener, listening, bRunning, Clients, MoveActions,
                   LookActions, PendingJumpCount, PendingSprintEnabled, now, pawn,
                   MaxWalkSpeed, frame, cmdLog, sent, sends, mark, startCall, scene, snapshot, shots>>

\* the queued lambda processing what is pending without taking it off the socket
RegisterAndPeek(InSocket) ==
    LET W0 == [World EXCEPT !.Clients = Append(@, [Socket |-> InSocket, Pending |-> <<>>])]
        W1 == DrainClient(W0, Len(W0.Clients), now)
    IN  [W1 EXCEPT !.socks = W0.socks, !.Clients[Len(W0.Clients)].Pending = <<>>]

\* the body of the queued lambda when the subsystem is still there:
\* Clients.Add, then DrainClient on the new entry
RegisterAndDrain(InSocket) ==
    LET W0 == [World EXCEPT !.Clients = Append(@, [Socket |-> InSocket, Pending |-> <<>>])]
    IN  DrainClient(W0, Len(W0.Clients), now)

\* the queued lambda, on the game thread
RunTask ==
    /\ tasks # <<>>
    /\ LET InSocket == Head(tasks) IN
       IF phase = "destroyed"
       THEN /\ socks' = [socks EXCEPT ![InSocket].destroyed = TRUE,
                                      ![InSocket].destroys = @ + 1]
            /\ UNCHANGED <<Clients, MoveActions, LookActions, PendingJumpCount,
                           PendingSprintEnabled, cmdLog, snapshot, shots>>
       ELSE \E W1 \in {RegisterAndDrain(InSocket)} :
               /\ Clients' = W1.Clients
               /\ socks' = W1.socks
               /\ MoveActions' = W1.MoveActions
               /\ LookActions' = W1.LookActions
               /\ PendingJumpCount' = W1.PendingJumpCount
               /\ PendingSprintEnabled' = W1.PendingSprintEnabled
               /\ cmdLog' = W1.cmdLog
               /\ snapshot' = W1.snapshot
               /\ shots' = W1.shots
    /\ tasks' = Tail(tasks)
    /\ op' = "RunTask"
    /\ UNCHANGED <<phase, Listener, listening, bRunning, now, pawn, MaxWalkSpeed,
                   frame, sent, sends, mark, startCall, scene>>

PeerSend(s, bytes) ==
    /\ socks[s].st = "connected" /\ ~socks[s].destroyed
    /\ socks' = [socks EXCEPT ![s].rx = @ \o bytes]
    /\ sent' = [sent EXCEPT ![s] = @ \o bytes]
    /\ sends' = sends + 1
    /\ op' = "PeerSend"
    /\ UNCHANGED <<phase, Listener, listening, bRunning, Clients, tasks, MoveActions,
                   LookActions, PendingJumpCount, PendingSprintEnabled, now, pawn,
                   MaxWalkSpeed, frame, cmdLog, mark, startCall, scene, snapshot, shots>>

PeerClose(s) ==
    /\ socks[s].st = "connected" /\ ~socks[s].destroyed
    /\ socks' = [socks EXCEPT ![s].st = "peerclosed"]
    /\ op' = "PeerClose"
    /\ UNCHANGED <<phase, Listener, listening, bRunning, Clients, tasks, MoveActions,
                   LookActions, PendingJumpCount, PendingSprintEnabled, now, pawn,
                   MaxWalkSpeed, frame, cmdLog, sent, sends, mark, startCall, scene, snapshot, shots>>

\* the connection breaks: what is still unread cannot be received any more
SockError(s) ==
    /\ socks[s].st = "connected" /\ ~socks[s].destroyed
    /\ socks' = [socks EXCEPT ![s].st = "error"]
    /\ op' = "SockError"
    /\ UNCHANGED <<phase, Listener, listening, bRunning, Clients, tasks, MoveActions,
                   LookActions, PendingJumpCount, PendingSprintEnabled, now, pawn,
                   MaxWalkSpeed, frame, cmdLog, sent, sends, mark, startCall, scene, snapshot, shots>>

\* ------------------------------------------------------------ world
Pass ==
    /\ now < MaxTime
    /\ now' = now + 1
    /\ op' = "Pass"
    /\ UNCHANGED <<phase, Listener, listening, bRunning, Clients, socks, tasks,
                   MoveActions, LookActions, PendingJumpCount, PendingSprintEnabled,
                   pawn, MaxWalkSpeed, frame, cmdLog, sent, sends, mark, startCall, scene, snapshot, shots>>

Possess(p) ==
    /\ p # pawn
    /\ pawn' = p
    /\ op' = "Possess"
    /\ UNCHANGED <<phase, Listener, listening, bRunning, Clients, socks, tasks,
                   MoveActions, LookActions, PendingJumpCount, PendingSprintEnabled,
                   now, MaxWalkSpeed, frame, cmdLog, sent, sends, mark, startCall, scene, snapshot, shots>>

\* ------------------------------------------------------------- Tick
\* PollClients if running, then ApplyScheduledActions, then ApplySprintIfPending.
\* lag is the time the poll took: ProcessLine reads the clock before it,
\* ApplyScheduledActions after it.
\* Tick with the poll after the two apply steps
TickResultPollLast(DeltaTime, lag) ==
    LET W1 == ApplyScheduledActions(World, pawn, now + lag, DeltaTime)
        W2 == ApplySprintIfPending(W1, pawn)
    IN  IF bRunning THEN PollClients(W2, now) ELSE W2

\* Tick polling the connections whether the server runs or not
TickResultPollStopped(DeltaTime, lag) ==
    LET W1 == PollClients(World, now)
        W2 == ApplyScheduledActions(W1, pawn, now + lag, DeltaTime)
    IN  ApplySprintIfPending(W2, pawn)

TickResult(DeltaTime, lag) ==
    LET W1 == IF bRunning THEN PollClients(World, now) ELSE World
        W2 == ApplyScheduledActions(W1, pawn, now + lag, DeltaTime)
    IN  ApplySprintIfPending(W2, pawn)

Tick(DeltaTime, lag) ==
    /\ phase = "initialized"
    /\ now + lag <= MaxTime
    /\ \E W3 \in {TickResult(DeltaTime, lag)} :
          /\ Clients' = W3.Clients
          /\ socks' = W3.socks
          /\ MoveActions' = W3.MoveActions
          /\ LookActions' = W3.LookActions
          /\ PendingJumpCount' = W3.PendingJumpCount
          /\ PendingSprintEnabled' = W3.PendingSprintEnabled
          /\ MaxWalkSpeed' = W3.MaxWalkSpeed
          /\ cmdLog' = W3.cmdLog
          /\ frame' = [bound |-> Strands_GetControlledCharacter(pawn),
                       MoveAxis |-> W3.MoveAxis, LookRate |-> W3.LookRate,
                       calls |-> W3.calls, jumped |-> frame.jumped + W3.calls.jumps,
                       ingested |-> Len(W3.cmdLog) - Len(cmdLog),
                       closed |-> {s \in Sockets : W3.socks[s].destroyed /\ ~socks[s].destroyed},
                       reads |-> W3.reads, visits |-> W3.visits]
          /\ mark' = Len(W3.cmdLog)
          /\ snapshot' = W3.snapshot
          /\ shots' = W3.shots
    /\ now' = now + lag
    /\ op' = "Tick"
    /\ UNCHANGED <<phase, Listener, listening, bRunning, tasks, pawn, sent, sends,
                   startCall, scene>>

\* Everything that can happen.
Next ==
    \/ \E a \in BOOLEAN, b \in BOOLEAN : Initialize(a, b)
    \/ \E b \in BOOLEAN : StartServer(b)
    \/ StopServer
    \/ Deinitialize
    \/ Collect
    \/ \E s \in Sockets : Accept(s)
    \/ RunTask
    \/ \E s \in Sockets, bytes \in Streams : sends < MaxSends /\ PeerSend(s, bytes)
    \/ \E s \in Sockets : PeerClose(s)
    \/ \E s \in Sockets : SockError(s)
    \/ Pass
    \/ \E p \in PawnKinds : Possess(p)
    \/ \E dt \in DeltaTimes, lag \in Lags : Tick(dt, lag)

Spec == Init /\ [][Next]_vars

\* ---- the scheduler: one running server, commands arriving, frames ticking
InitSched == \E p \in PawnKinds : InitState("initialized", TRUE, p) /\ scene = OpenScene

NextSched(streams) ==
    \/ Accept(1)
    \/ RunTask
    \/ \E bytes \in streams : sends < MaxSends /\ PeerSend(1, bytes)
    \/ Pass
    \/ \E p \in PawnKinds : Possess(p)
    \/ \E dt \in DeltaTimes, lag \in Lags : Tick(dt, lag)

MoveStreams ==
    { Obj2("cmd:move", "forward:2") \o <<LF>> \o Obj2("cmd:move", "right:-3") \o <<LF>>,
      Obj3("cmd:move", "forward:3", "duration:1") \o <<LF>>,
      Obj2("cmd:move", "forward:-2") \o <<LF>> }

NextMove == NextSched(MoveStreams)
SpecMove == InitSched /\ [][NextMove]_vars

JumpStreams ==
    { JumpLF, JumpLF \o JumpLF, Obj1("cmd:JUMP") \o <<CR, LF>> }

NextJump == NextSched(JumpStreams)
SpecJump == InitSched /\ [][NextJump]_vars

SprintStreams ==
    { Obj2("cmd:sprint", "enabled:true") \o <<LF>>,
      Obj2("cmd:sprint", "enabled:false") \o <<CR, LF>>,
      Obj2("cmd:sprint", "enabled:true") \o <<LF>>
          \o Obj2("cmd:sprint", "enabled:false") \o <<LF>> }

NextSprint == NextSched(SprintStreams)
SpecSprint == InitSched /\ [][NextSprint]_vars

\* ---- pawns: every kind of command arrives while pawns of every kind are possessed
PawnStreams ==
    { Obj3("cmd:move", "forward:1", "duration:1") \o <<LF>>
          \o Obj3("cmd:look", "yawRate:90", "duration:1") \o <<LF>> \o JumpLF,
      Obj2("cmd:look", "pitchRate:-30") \o <<LF>>
          \o Obj2("cmd:sprint", "enabled:true") \o <<LF>>
          \o Obj2("cmd:move", "forward:2") \o <<LF>> }

NextPawn == NextSched(PawnStreams)
SpecPawn == InitSched /\ [][NextPawn]_vars

\* ---- defaults: Move and Look with members missing or of another type
DefaultStreams ==
    { Obj3("cmd:move", "forward:x", "duration:x") \o <<LF>>,
      Obj2("cmd:look", "pitchRate:-30") \o <<LF>>,
      Obj3("cmd:look", "yawRate:x", "duration:1") \o <<LF>> }

NextDefault == NextSched(DefaultStreams)
SpecDefault == InitSched /\ [][NextDefault]_vars

\* ---- snapshots: state commands arrive while the pawn stands in different places
WaistHits == {Miss, Hit(0), Hit(1), Hit(99), Hit(100), Hit(200)}

Scenes ==
    {[knee |-> k, waist |-> w, chest |-> k, left |-> l, right |-> l, down |-> d] :
        w \in WaistHits, k \in {Miss, Hit(50)}, l \in {Miss, Hit(150)},
        d \in {Miss, Hit(88)}}

StateStreams ==
    { Obj1("cmd:state") \o <<LF>>, Obj2("cmd:state", "path:p") \o <<LF>> }

NextSnap ==
    \/ Accept(1)
    \/ RunTask
    \/ \E bytes \in StateStreams : sends < MaxSends /\ PeerSend(1, bytes)
    \/ \E p \in PawnKinds : Possess(p)
    \/ Tick(1, 0)

InitSnap == \E p \in PawnKinds, sc \in Scenes : InitState("initialized", TRUE, p) /\ scene = sc
SpecSnap == InitSnap /\ [][NextSnap]_vars

\* ---- windows: Move and Look with durations below, at and above zero
WindowStreams ==
    { Obj3("cmd:move", "forward:1", "duration:1") \o <<LF>>,
      Obj3("cmd:move", "right:1", "duration:0") \o <<LF>>,
      Obj3("cmd:look", "yawRate:90", "duration:-1") \o <<LF>>,
      Obj3("cmd:look", "yawRate:90", "duration:1") \o <<LF>> }

NextWindow == NextSched(WindowStreams)
SpecWindow == InitSched /\ [][NextWindow]_vars

\* ---- sprint commands whose enabled member is missing or is not true/false
LatchStreams ==
    { Obj2("cmd:sprint", "enabled:true") \o <<LF>>,
      Obj1("cmd:sprint") \o <<LF>>,
      Obj2("cmd:sprint", "enabled:1") \o <<LF>>,
      Obj2("cmd:sprint", "enabled:yes") \o <<LF>> }

NextLatch == NextSched(LatchStreams)
SpecLatch == InitSched /\ [][NextLatch]_vars

\* ---- framing and decoding: one connection, every kind of line
FrameStreams ==
    { JumpLF \o MoveCRLF,
      <<"not json", LF>> \o JumpLF,
      Obj1("cmd:dance") \o <<LF>> \o Obj2("cmd:sprint", "enabled:false") \o <<LF>>,
      <<"[]", LF>> \o Obj1("forward:1") \o <<LF>> \o Obj1("cmd:7") \o <<CR, LF>>,
      <<SP, CR, LF, SP>> \o Obj2("cmd:sprint", "enabled:true") \o <<SP, CR, LF>>,
      <<"{", "cmd:jump">>,
      <<"}", LF>> }

NextFrame ==
    \/ Accept(1)
    \/ RunTask
    \/ \E bytes \in FrameStreams : sends < MaxSends /\ PeerSend(1, bytes)
    \/ PeerClose(1)
    \/ Tick(1, 0)

InitNet == InitState("initialized", TRUE, "Character") /\ scene = OpenScene
SpecFrame == InitNet /\ [][NextFrame]_vars

\* ---- connections: peers send, close and fail while frames poll
ConnStreams == { JumpLF, <<"{", "cmd:jump">> }

NextConn ==
    \/ \E s \in Sockets : Accept(s)
    \/ RunTask
    \/ \E s \in Sockets, bytes \in ConnStreams : sends < MaxSends /\ PeerSend(s, bytes)
    \/ \E s \in Sockets : PeerClose(s)
    \/ \E s \in Sockets : SockError(s)
    \/ Tick(1, 0)

SpecConn == InitNet /\ [][NextConn]_vars

\* ---- the pools: timed actions arriving, frames ticking, the server stopped
PoolStreams ==
    { Obj3("cmd:move", "forward:1", "duration:1") \o <<LF>>,
      Obj3("cmd:move", "right:1", "duration:0") \o <<LF>>,
      Obj3("cmd:look", "yawRate:90", "duration:1") \o <<LF>> }

NextPool ==
    \/ NextSched(PoolStreams)
    \/ StopServer

SpecPool == InitSched /\ [][NextPool]_vars

\* ---- frames that keep running against a clock that keeps advancing
QuiesceStreams ==
    { Obj3("cmd:move", "forward:1", "duration:1") \o <<LF>>,
      Obj3("cmd:look", "yawRate:90", "duration:1") \o <<LF>> }

NextQuiesce == NextSched(QuiesceStreams)

\* FPlatformTime::Seconds() goes on, and the engine ticks the subsystem every
\* frame.  Tick is enabled in every state of a server that is initialized and
\* leaves op = "Tick", so its weak fairness gives that a frame has just run
\* again and again, which is how it is written here.
SpecQuiesce ==
    /\ InitSched
    /\ [][NextQuiesce]_vars
    /\ WF_vars(Pass)
    /\ []<>(op = "Tick")

\* ---- the poll pass: two connections, bytes arriving, peers closing and failing
PollStreams == { JumpLF \o MoveCRLF }

NextPoll ==
    \/ \E s \in Sockets : Accept(s)
    \/ RunTask
    \/ \E s \in Sockets, bytes \in PollStreams : sends < MaxSends /\ PeerSend(s, bytes)
    \/ \E s \in Sockets : PeerClose(s)
    \/ \E s \in Sockets : SockError(s)
    \/ Tick(1, 0)

SpecPoll == InitNet /\ [][NextPoll]_vars

\* ---- the copy of the subsystem packaged under HostProject.  Its read loop,
\* Strands_SplitLines, ProcessLine (for move, look, jump and sprint),
\* ApplyScheduledActions and ApplySprintIfPending are those of the plugin, line
\* for line; its accept lambda and its PollClients are not.

\* the body of the queued lambda of the copy: Clients.Add, and nothing more
HostProject_Register(InSocket) ==
    [World EXCEPT !.Clients = Append(@, [Socket |-> InSocket, Pending |-> <<>>])]

HostProject_RunTask ==
    /\ tasks # <<>>
    /\ LET InSocket == Head(tasks) IN
       IF phase = "destroyed"
       THEN /\ socks' = [socks EXCEPT ![InSocket].destroyed = TRUE,
                                      ![InSocket].destroys = @ + 1]
            /\ UNCHANGED Clients
       ELSE /\ Clients' = HostProject_Register(InSocket).Clients
            /\ UNCHANGED socks
    /\ tasks' = Tail(tasks)
    /\ op' = "RunTask"
    /\ UNCHANGED <<phase, Listener, listening, bRunning, MoveActions, LookActions,
                   PendingJumpCount, PendingSprintEnabled, now, pawn, MaxWalkSpeed,
                   frame, cmdLog, sent, sends, mark, startCall, scene, snapshot, shots>>

\* PollClients of the copy, from index i down to 1: GetConnectionState first,
\* the read loop only for a connection found connected
RECURSIVE HostProject_PollClientsFrom(_, _, _)
HostProject_PollClientsFrom(W, i, Now) ==
    IF i = 0 THEN W
    ELSE IF W.Clients[i].Socket = 0
    THEN HostProject_PollClientsFrom([W EXCEPT !.Clients = RemoveAtSwap(@, i)], i - 1, Now)
    ELSE
    LET s         == W.Clients[i].Socket
        W0        == Visited(W, s, "check")
        ConnState == W.socks[s].st
    IN IF ConnState # "connected"
       THEN HostProject_PollClientsFrom(
                [CloseAndDestroy(W0, s) EXCEPT !.Clients = RemoveAtSwap(@, i)], i - 1, Now)
       ELSE HostProject_PollClientsFrom(RecvLoop(Visited(W0, s, "drain"), i, Now), i - 1, Now)

HostProject_PollClients(W, Now) == HostProject_PollClientsFrom(W, Len(W.Clients), Now)

HostProject_TickResult(DeltaTime, lag) ==
    LET W1 == IF bRunning THEN HostProject_PollClients(World, now) ELSE World
        W2 == ApplyScheduledActions(W1, pawn, now + lag, DeltaTime)
    IN  ApplySprintIfPending(W2, pawn)

HostProject_Tick(DeltaTime, lag) ==
    /\ phase = "initialized"
    /\ now + lag <= MaxTime
    /\ \E W3 \in {HostProject_TickResult(DeltaTime, lag)} :
          /\ Clients' = W3.Clients
          /\ socks' = W3.socks
          /\ MoveActions' = W3.MoveActions
          /\ LookActions' = W3.LookActions
          /\ PendingJumpCount' = W3.PendingJumpCount
          /\ PendingSprintEnabled' = W3.PendingSprintEnabled
          /\ MaxWalkSpeed' = W3.MaxWalkSpeed
          /\ cmdLog' = W3.cmdLog
          /\ frame' = [bound |-> Strands_GetControlledCharacter(pawn),
                       MoveAxis |-> W3.MoveAxis, LookRate |-> W3.LookRate,
                       calls |-> W3.calls, jumped |-> frame.jumped + W3.calls.jumps,
                       ingested |-> Len(W3.cmdLog) - Len(cmdLog),
                       closed |-> {s \in Sockets : W3.socks[s].destroyed /\ ~socks[s].destroyed},
                       reads |-> W3.reads, visits |-> W3.visits]
          /\ mark' = Len(W3.cmdLog)
          /\ snapshot' = W3.snapshot
          /\ shots' = W3.shots
    /\ now' = now + lag
    /\ op' = "Tick"
    /\ UNCHANGED <<phase, Listener, listening, bRunning, tasks, pawn, sent, sends,
                   startCall, scene>>

HostProjectStreams == { JumpLF, JumpLF \o MoveCRLF, <<"{", "cmd:jump">> }

NextHostProject ==
    \/ Accept(1)
    \/ HostProject_RunTask
    \/ \E bytes \in HostProjectStreams : sends < MaxSends /\ PeerSend(1, bytes)
    \/ PeerClose(1)
    \/ HostProject_Tick(1, 0)

SpecHostProject == InitNet /\ [][NextHostProject]_vars

\* ---- a server stopped with actions pending
StoppedStreams ==
    { Obj3("cmd:move", "forward:1", "duration:1") \o <<LF>>,
      JumpLF \o Obj2("cmd:sprint", "enabled:true") \o <<LF>> }

NextStopped ==
    \/ NextSched(StoppedStreams)
    \/ StopServer

SpecStopped == InitSched /\ [][NextStopped]_vars

\* ---- two connections feeding the one scheduler
SharedStreams ==
    { Obj2("cmd:sprint", "enabled:true") \o <<LF>>,
      Obj2("cmd:sprint", "enabled:false") \o <<LF>>,
      JumpLF }

NextShared ==
    \/ \E s \in Sockets : Accept(s)
    \/ RunTask
    \/ \E s \in Sockets, bytes \in SharedStreams : sends < MaxSends /\ PeerSend(s, bytes)
    \/ \E s \in Sockets : PeerClose(s)
    \/ Tick(1, 0)

SpecShared == InitNet /\ [][NextShared]_vars

\* ---- connections removed with a line unfinished
DiscardStreams == { JumpLF \o Obj1("cmd:jump") }

NextDiscard ==
    \/ \E s \in Sockets : Accept(s)
    \/ RunTask
    \/ \E s \in Sockets, bytes \in DiscardStreams : sends < MaxSends /\ PeerSend(s, bytes)
    \/ \E s \in Sockets : PeerClose(s)
    \/ StopServer
    \/ StartServer(TRUE)
    \/ Tick(1, 0)

SpecDiscard == InitNet /\ [][NextDiscard]_vars

\* ---- captures: state and screenshot commands arrive among scheduler commands
CaptureStreams ==
    { Obj2("cmd:sprint", "enabled:true") \o <<LF>> \o Obj1("cmd:state") \o <<LF>>,
      JumpLF \o Obj2("cmd:state", "path:p") \o <<LF>>,
      Obj3("cmd:screenshot", "path:p", "showUI:true") \o <<LF>>,
      Obj1("cmd:screenshot") \o <<LF>> \o Obj1("cmd:state") \o <<LF>> }

NextCapture ==
    \/ \E s \in Sockets : Accept(s)
    \/ RunTask
    \/ \E s \in Sockets, bytes \in CaptureStreams : sends < MaxSends /\ PeerSend(s, bytes)
    \/ Tick(1, 0)

SpecCapture == InitNet /\ [][NextCapture]_vars

\* ---- the life of the server: started, stopped and torn down while peers connect
LifeStreams == { JumpLF }

NextLife ==
    \/ \E a \in BOOLEAN, b \in BOOLEAN : Initialize(a, b)
    \/ \E b \in BOOLEAN : StartServer(b)
    \/ StopServer
    \/ Deinitialize
    \/ Collect
    \/ \E s \in Sockets : Accept(s)
    \/ RunTask
    \/ \E s \in Sockets, bytes \in LifeStreams : sends < MaxSends /\ PeerSend(s, bytes)
    \/ Tick(1, 0)

InitLife == InitState("constructed", FALSE, "Character") /\ scene = OpenScene
SpecLife == InitLife /\ [][NextLife]_vars

\* ------------------------------------------------------------ claims
\* the part of cmdLog after position k
LogAfter(k) == SubSeq(cmdLog, k + 1, Len(cmdLog))

\* the sum of the values of a function with a finite domain
RECURSIVE SumOf(_)
SumOf(f) == IF DOMAIN f = {} THEN 0
            ELSE LET x == CHOOSE y \in DOMAIN f : TRUE
                 IN  f[x] + SumOf([z \in DOMAIN f \ {x} |-> f[z]])

\* positions in cmdLog of the commands of kind c whose window is open at time T
LiveAt(c, T) == {i \in 1..Len(cmdLog) : cmdLog[i].cmd = c /\ cmdLog[i].end > T}

Saturate(x) == IF x > 1 THEN 1 ELSE IF x < -1 THEN -1 ELSE x

\* C1: the move axis a frame resolves at time T is, per axis, the sum over every
\* Move command ever ingested whose expiresAt is after T, clamped once to [-1, 1];
\* commands with expiresAt <= T add nothing.
C1_MoveAxisIsClampedSum ==
    op = "Tick" =>
        frame.MoveAxis = <<Saturate(SumOf([i \in LiveAt("move", now) |-> cmdLog[i].a])),
                           Saturate(SumOf([i \in LiveAt("move", now) |-> cmdLog[i].b]))>>

\* a frame has resolved the live Move(2,0) and Move(0,-3) to (1,-1)
C1_Witness ==
    /\ op = "Tick"
    /\ frame.MoveAxis = <<1, -1>>
    /\ \E i, j \in LiveAt("move", now) :
          /\ cmdLog[i].a = 2 /\ cmdLog[i].b = 0
          /\ cmdLog[j].a = 0 /\ cmdLog[j].b = -3
          /\ LiveAt("move", now) = {i, j}

\* the entries of kind c in a piece of cmdLog
OfKind(log, c) == SelectSeq(log, LAMBDA e : e.cmd = c)

\* C2: with a character bound in this frame and in the one before it, the frame
\* calls Jump() once for every Jump command ingested since the previous resolve
\* pass (none when there was none); and at all times every Jump command ingested
\* has either fired once or is still counted in PendingJumpCount.
C2_JumpFiresOnce ==
    [][ /\ (op' = "Tick" /\ Strands_GetControlledCharacter(pawn) /\ frame.bound)
            => frame'.calls.jumps = Len(OfKind(SubSeq(cmdLog', mark + 1, Len(cmdLog')), "jump"))
        /\ frame'.jumped + PendingJumpCount' = Len(OfKind(cmdLog', "jump")) ]_vars

\* a frame with a character has fired the two Jump commands received since the
\* frame before it, and nothing is left pending
C2_Witness ==
    /\ op = "Tick"
    /\ Strands_GetControlledCharacter(pawn)
    /\ frame.calls.jumps = 2
    /\ frame.jumped = 3
    /\ PendingJumpCount = 0

\* C3: a frame with a character (and its movement component) bound sets
\* MaxWalkSpeed exactly once, to SprintWalkSpeed or NormalWalkSpeed as the last
\* Sprint command since the previous resolve pass says; a frame with no new Sprint
\* command sets nothing; every frame leaves the latch unset; and nothing else ever
\* changes the speed.
C3_SprintSetOnce ==
    [][ LET New == OfKind(SubSeq(cmdLog', mark + 1, Len(cmdLog')), "sprint")
            Want == IF New[Len(New)].en THEN SprintWalkSpeed ELSE NormalWalkSpeed
        IN /\ op' = "Tick" =>
                /\ PendingSprintEnabled' = <<>>
                /\ New = <<>> => /\ frame'.calls.speed = <<>>
                                 /\ MaxWalkSpeed' = MaxWalkSpeed
                /\ (New # <<>> /\ pawn = "Character") =>
                                 /\ frame'.calls.speed = <<Want>>
                                 /\ MaxWalkSpeed' = Want
           /\ op' # "Tick" => MaxWalkSpeed' = MaxWalkSpeed ]_vars

\* a frame that received no Sprint command has left the speed a previous frame
\* set for Sprint(true) as it was
C3_Witness ==
    /\ op = "Tick"
    /\ pawn = "Character"
    /\ cmdLog # <<>> /\ cmdLog[Len(cmdLog)].cmd = "sprint" /\ cmdLog[Len(cmdLog)].en
    /\ frame.calls.speed = <<>>
    /\ MaxWalkSpeed = SprintWalkSpeed
    /\ PendingSprintEnabled = <<>>

\* ---- what a connection should have produced, worked out from what its peer sent
\* the bytes of s that have been received so far
Consumed(s) == SubSeq(sent[s], 1, Len(sent[s]) - Len(socks[s].rx))

\* a line without the white space (CR included) around it
Stripped(raw) ==
    LET keep == {i \in 1..Len(raw) : raw[i] \notin {SP, CR}} IN
    IF keep = {} THEN <<>>
    ELSE SubSeq(raw, CHOOSE i \in keep : \A j \in keep : i <= j,
                     CHOOSE i \in keep : \A j \in keep : i >= j)

\* the non-empty lines of a stream, stripped, in stream order; what follows the
\* last line feed is no line yet
RECURSIVE LinesOf(_)
LinesOf(stream) ==
    IF \A i \in 1..Len(stream) : stream[i] # LF THEN <<>>
    ELSE LET n == CHOOSE i \in 1..Len(stream) :
                      stream[i] = LF /\ \A j \in 1..(i - 1) : stream[j] # LF
             l == Stripped(SubSeq(stream, 1, n - 1))
         IN  (IF l = <<>> THEN <<>> ELSE <<l>>) \o LinesOf(SubSeq(stream, n + 1, Len(stream)))

Cmd(c, a, b, d, en) == [cmd |-> c, a |-> a, b |-> b, d |-> d, en |-> en]

\* the command each line of the protocol stands for; "none" for any other line
CommandOf(l) ==
    CASE l = Obj1("cmd:jump")                     -> Cmd("jump", 0, 0, 0, FALSE)
      [] l = Obj1("cmd:JUMP")                     -> Cmd("jump", 0, 0, 0, FALSE)
      [] l = Obj2("cmd:move", "forward:1")        -> Cmd("move", 1, 0, DefaultMoveDuration, FALSE)
      [] l = Obj2("cmd:sprint", "enabled:true")   -> Cmd("sprint", 0, 0, 0, TRUE)
      [] l = Obj2("cmd:sprint", "enabled:false")  -> Cmd("sprint", 0, 0, 0, FALSE)
      [] OTHER                                    -> Cmd("none", 0, 0, 0, FALSE)

\* what ProcessLine was handed from socket s, and what it made of it
FromSock(s) == SelectSeq(cmdLog, LAMBDA e : e.sock = s)
LinesSeen(s) == [i \in 1..Len(FromSock(s)) |-> FromSock(s)[i].line]
Decoded(s) ==
    LET D == SelectSeq(FromSock(s), LAMBDA e : e.cmd # "none")
    IN  [i \in 1..Len(D) |-> Cmd(D[i].cmd, D[i].a, D[i].b, D[i].d, D[i].en)]
Expected(stream) ==
    LET L == LinesOf(stream)
        C == [i \in 1..Len(L) |-> CommandOf(L[i])]
    IN  SelectSeq(C, LAMBDA c : c.cmd # "none")

Registered(s) == \E i \in 1..Len(Clients) : Clients[i].Socket = s

\* C4: the lines handed to the decoder from a connection are the non-empty lines
\* of the bytes received, CR and surrounding white space removed, in stream order,
\* each once; and the commands decoded are the ones those lines stand for.
C4_OneCommandPerLine ==
    \A s \in Sockets :
        /\ LinesSeen(s) = LinesOf(Consumed(s))
        /\ Decoded(s) = Expected(Consumed(s))

\* the stream jump LF move(forward 1) CR LF has been read and decoded
C4_Witness ==
    /\ sent[1] = JumpLF \o MoveCRLF
    /\ socks[1].rx = <<>>
    /\ Decoded(1) = <<Cmd("jump", 0, 0, 0, FALSE),
                      Cmd("move", 1, 0, DefaultMoveDuration, FALSE)>>

BadLines == { <<"not json">>, <<"[]">>, Obj1("cmd:dance"), Obj1("forward:1"), Obj1("cmd:7") }

Scheduler(W) == <<W.MoveActions, W.LookActions, W.PendingJumpCount, W.PendingSprintEnabled,
                  W.Clients, W.socks>>

\* C5: a line that is not JSON, not an object, or has no known cmd changes nothing
\* in the pools, the jump count, the latch or the registry; a drain that meets only
\* such lines leaves them all as they were, with the connection still registered
\* and open; and the lines that follow on the connection are decoded as usual.
C5_BadLineDiscarded ==
    /\ [](\A l \in BadLines : Scheduler(ProcessLine(World, l, now)) = Scheduler(World))
    /\ [][ \A s \in Sockets :
             LET New == SubSeq(cmdLog', Len(cmdLog) + 1, Len(cmdLog'))
             IN  (/\ op' = "RunTask"
                  /\ New # <<>>
                  /\ \A i \in 1..Len(New) : New[i].sock = s /\ New[i].line \in BadLines)
                 => /\ UNCHANGED <<MoveActions, LookActions, PendingJumpCount,
                                   PendingSprintEnabled>>
                    /\ Registered(s)' /\ ~socks'[s].closed /\ ~socks'[s].destroyed ]_vars
    /\ [](\A s \in Sockets : Decoded(s) = Expected(Consumed(s)))

\* "not json" LF jump LF: one command, and the connection is still there
C5_Witness ==
    /\ sent[1] = <<"not json", LF>> \o JumpLF
    /\ socks[1].rx = <<>>
    /\ LinesSeen(1) = << <<"not json">>, Obj1("cmd:jump") >>
    /\ Decoded(1) = <<Cmd("jump", 0, 0, 0, FALSE)>>
    /\ PendingJumpCount + frame.jumped = 1
    /\ Registered(1) /\ ~socks[1].closed

\* C6: when a poll pass closes a connection whose peer has closed, every complete
\* line the peer had sent has been handed to the decoder by then: the pass reads
\* what is pending before it looks at the connection state.
C6_DrainBeforeClose ==
    op = "Tick" =>
        \A s \in frame.closed :
            socks[s].st = "peerclosed" =>
                /\ socks[s].rx = <<>>
                /\ LinesSeen(s) = LinesOf(sent[s])
                /\ Decoded(s) = Expected(sent[s])

\* a poll pass has ingested a jump from a connection and closed it in the same pass
C6_Witness ==
    /\ op = "Tick"
    /\ \E s \in frame.closed :
          /\ socks[s].st = "peerclosed"
          /\ sent[s] = JumpLF
          /\ frame.ingested = 1
          /\ cmdLog[Len(cmdLog)].sock = s
          /\ cmdLog[Len(cmdLog)].cmd = "jump"
          /\ frame.calls.jumps = 1

\* C7: a poll pass of a running server closes, destroys and removes every
\* registered connection whose socket is no longer connected, so none is left in
\* the registry after the pass; a destroyed socket is never registered, read or
\* touched again.
C7_DisconnectedRemoved ==
    [][ /\ (op' = "Tick" /\ bRunning) =>
              /\ \A s \in Sockets :
                    (Registered(s) /\ socks[s].st # "connected")
                    => /\ socks'[s].closed /\ socks'[s].destroyed
                       /\ s \in frame'.closed
              /\ \A i \in 1..Len(Clients') :
                    /\ Clients'[i].Socket # 0
                    /\ socks'[Clients'[i].Socket].st = "connected"
                    /\ ~socks'[Clients'[i].Socket].destroyed
        /\ \A s \in Sockets :
              socks[s].destroyed => socks'[s] = socks[s] /\ ~Registered(s)' ]_vars

\* a poll pass has removed the connection of a peer that closed and kept another
C7_Witness ==
    /\ op = "Tick"
    /\ bRunning
    /\ \E s \in frame.closed :
          /\ socks[s].st = "peerclosed" /\ socks[s].closed /\ socks[s].destroyed
          /\ ~Registered(s)
    /\ Len(Clients) = 1

\* C8: whenever StopServer (or Deinitialize, which calls it) returns, the running
\* flag is false, every socket that was registered has been closed and destroyed,
\* the registry is empty and the listener is gone; and the state it leaves is one
\* that StopServer would leave exactly as it is.
C8_StopIdempotent ==
    /\ [][ op' \in {"StopServer", "Deinitialize"} =>
             \A s \in Sockets : Registered(s) => socks'[s].closed /\ socks'[s].destroyed ]_vars
    /\ [](op \in {"StopServer", "Deinitialize"} =>
             /\ ~bRunning /\ ~Listener /\ ~listening
             /\ Clients = <<>>
             /\ StopSockets(socks, Clients) = socks)

\* StopServer has closed the socket of a registered client
C8_Witness ==
    /\ op = "StopServer"
    /\ ~bRunning /\ ~Listener /\ Clients = <<>>
    /\ startCall.called
    /\ \E s \in Sockets :
           socks[s].st = "connected" /\ socks[s].closed /\ socks[s].destroyed

\* C9: while the server is stopped, every socket the listener accepted has been
\* closed and destroyed and the registry is empty.
C9_StopClosesEveryAccepted ==
    ~bRunning =>
        /\ Clients = <<>>
        /\ \A s \in Sockets : socks[s].st # "free" => socks[s].destroyed

\* C10: a StartServer call that made a listener which could not bind returns
\* false and does not leave the server running.
C10_BindFailureReported ==
    (op \in {"StartServer", "Initialize"} /\ startCall.tried /\ ~startCall.bindOk)
        => ~startCall.ret /\ ~bRunning

\* C11: the server holds at most one listener: a StartServer call on a server that
\* is running or already has a listener returns true, makes no listener and leaves
\* listener and running flag as they were; a listener is only ever made when there
\* was none; and the running flag is true only while a listener exists.
C11_OneListener ==
    /\ [][ op' = "StartServer" =>
             /\ (bRunning \/ Listener) =>
                   /\ startCall'.ret /\ ~startCall'.tried
                   /\ UNCHANGED <<Listener, listening, bRunning>>
             /\ startCall'.tried => ~Listener /\ ~bRunning ]_vars
    /\ [](bRunning => Listener)

\* StartServer has been called on a running server and returned true without
\* making a listener
C11_Witness ==
    /\ op = "StartServer"
    /\ bRunning /\ Listener
    /\ startCall.called /\ ~startCall.tried /\ startCall.ret

\* C12: after every frame the jump counter is 0, with or without a character bound.
C12_JumpCountZeroAfterFrame ==
    op = "Tick" => PendingJumpCount = 0

\* C13: every Sprint command overwrites the pending value, so the latch, while set,
\* holds the value of the last Sprint command ingested; a frame that follows
\* several of them sets the speed at most once, to what the last one asked for.
C13_LastSprintWins ==
    /\ [](PendingSprintEnabled # <<>> =>
             /\ OfKind(LogAfter(mark), "sprint") # <<>>
             /\ PendingSprintEnabled =
                   <<OfKind(cmdLog, "sprint")[Len(OfKind(cmdLog, "sprint"))].en>>)
    /\ [][ LET New  == OfKind(SubSeq(cmdLog', mark + 1, Len(cmdLog')), "sprint")
               Last == IF New[Len(New)].en THEN SprintWalkSpeed ELSE NormalWalkSpeed
           IN (op' = "Tick" /\ Len(New) >= 2) =>
                 /\ Len(frame'.calls.speed) <= 1
                 /\ pawn = "Character" => /\ frame'.calls.speed = <<Last>>
                                          /\ MaxWalkSpeed' = Last ]_vars

\* Sprint(true) and Sprint(false) were ingested by one poll pass; the frame set
\* the speed once, to the normal speed
C13_Witness ==
    /\ op = "Tick"
    /\ pawn = "Character"
    /\ frame.ingested = 2 /\ Len(cmdLog) = 2
    /\ cmdLog[1].cmd = "sprint" /\ cmdLog[1].en
    /\ cmdLog[2].cmd = "sprint" /\ ~cmdLog[2].en
    /\ frame.calls.speed = <<NormalWalkSpeed>>
    /\ MaxWalkSpeed = NormalWalkSpeed

NotBooleanSprint ==
    { Obj1("cmd:sprint"), Obj2("cmd:sprint", "enabled:1"), Obj2("cmd:sprint", "enabled:yes") }

\* C14: a sprint command without enabled, or with an enabled that is not true or
\* false, changes nothing: a drain that meets only such lines leaves latch, pools
\* and jump counter as they were and the connection registered, and a frame whose
\* poll meets only such lines, the latch being unset, sets no speed.
C14_SprintWithoutBooleanIsNoOp ==
    [][ LET New == SubSeq(cmdLog', Len(cmdLog) + 1, Len(cmdLog'))
            OnlyBad == /\ New # <<>>
                       /\ \A i \in 1..Len(New) : New[i].line \in NotBooleanSprint
        IN /\ (op' = "RunTask" /\ OnlyBad) =>
                 /\ UNCHANGED <<PendingSprintEnabled, MoveActions, LookActions,
                                PendingJumpCount>>
                 /\ \E i \in 1..Len(Clients') : Clients'[i].Socket = New[1].sock
           /\ (op' = "Tick" /\ OnlyBad /\ PendingSprintEnabled = <<>>) =>
                 /\ frame'.calls.speed = <<>>
                 /\ MaxWalkSpeed' = MaxWalkSpeed ]_vars

\* positions in cmdLog of the commands of kind c ingested at t with duration d
\* for which t <= T < t + d
InWindow(c, T) ==
    {i \in 1..Len(cmdLog) :
        /\ cmdLog[i].cmd = c
        /\ cmdLog[i].at <= T
        /\ T < cmdLog[i].at + cmdLog[i].d}

\* C15: a Move or Look ingested at t with duration d gets EndTime t + max(0, d);
\* the pass at time T sums, and keeps in its pool, exactly the actions with
\* t <= T < t + d: none with d <= 0, and none at T = t + d.
C15_WindowHalfOpen ==
    /\ \A i \in 1..Len(cmdLog) :
          cmdLog[i].cmd \in {"move", "look"} =>
              cmdLog[i].end = cmdLog[i].at + (IF cmdLog[i].d > 0 THEN cmdLog[i].d ELSE 0)
    /\ op = "Tick" =>
          /\ frame.MoveAxis =
                <<Saturate(SumOf([i \in InWindow("move", now) |-> cmdLog[i].a])),
                  Saturate(SumOf([i \in InWindow("move", now) |-> cmdLog[i].b]))>>
          /\ frame.LookRate =
                <<SumOf([i \in InWindow("look", now) |-> cmdLog[i].a]),
                  SumOf([i \in InWindow("look", now) |-> cmdLog[i].b])>>
          /\ Len(MoveActions) = Cardinality(InWindow("move", now))
          /\ Len(LookActions) = Cardinality(InWindow("look", now))
          /\ \A i \in InWindow("move", now) :
                \E k \in 1..Len(MoveActions) :
                    MoveActions[k] = [Axis |-> <<cmdLog[i].a, cmdLog[i].b>>,
                                      EndTime |-> cmdLog[i].end]
          /\ \A i \in InWindow("look", now) :
                \E k \in 1..Len(LookActions) :
                    LookActions[k] = [Rate |-> <<cmdLog[i].a, cmdLog[i].b>>,
                                      EndTime |-> cmdLog[i].end]

\* a frame at the very end of the window of a Look with duration 1 leaves it out,
\* as it does a Move with duration 0
C15_Witness ==
    /\ op = "Tick"
    /\ \E i, j \in 1..Len(cmdLog) :
          /\ cmdLog[i].cmd = "look" /\ cmdLog[i].d = 1 /\ cmdLog[i].end = now
          /\ cmdLog[j].cmd = "move" /\ cmdLog[j].d = 0
    /\ Len(cmdLog) = 2
    /\ frame.LookRate = <<0, 0>> /\ frame.MoveAxis = <<0, 0>>
    /\ LookActions = <<>> /\ MoveActions = <<>>

C17_FrameOrder ==
    [][ (op' = "Tick" /\ bRunning) =>
          LET L    == cmdLog'
              New  == SubSeq(L, Len(cmdLog) + 1, Len(L))
              Spr  == OfKind(New, "sprint")
              Live == {i \in 1..Len(L) : L[i].cmd = "move" /\ L[i].end > now'}
          IN /\ \A i \in 1..Len(Clients') : socks'[Clients'[i].Socket].rx = <<>>
             /\ frame'.ingested = Len(New)
             /\ Strands_GetControlledCharacter(pawn) =>
                   /\ frame'.calls.jumps = PendingJumpCount + Len(OfKind(New, "jump"))
                   /\ PendingJumpCount' = 0
             /\ (Spr # <<>> /\ pawn = "Character") =>
                   frame'.calls.speed =
                       <<IF Spr[Len(Spr)].en THEN SprintWalkSpeed ELSE NormalWalkSpeed>>
             /\ PendingSprintEnabled' = <<>>
             /\ frame'.MoveAxis = <<Saturate(SumOf([i \in Live |-> L[i].a])),
                                    Saturate(SumOf([i \in Live |-> L[i].b]))>>
             /\ Len(frame'.calls.move) <= 1
             /\ Len(frame'.calls.look) <= 1
             /\ Len(frame'.calls.speed) <= 1 ]_vars

\* one frame has drained a Jump and a Move and applied both
C17_Witness ==
    /\ op = "Tick"
    /\ bRunning
    /\ frame.ingested = 2 /\ Len(cmdLog) = 2
    /\ cmdLog[1].cmd = "jump" /\ cmdLog[2].cmd = "move"
    /\ frame.calls.jumps = 1
    /\ frame.calls.move = << <<1, 0>> >>

\* the operations that run on the game thread
GameThreadOps == {"Initialize", "StartServer", "StopServer", "Deinitialize", "RunTask", "Tick"}

\* C18: the registry, both pools, the jump counter and the sprint latch change only
\* in steps of the game thread, and no line is decoded anywhere else; the accept
\* callback marks the socket connected, queues exactly one task for it and leaves
\* all of that state alone.
C18_GameThreadOwnsState ==
    [][ /\ <<Clients, MoveActions, LookActions, PendingJumpCount,
             PendingSprintEnabled, cmdLog>>'
              # <<Clients, MoveActions, LookActions, PendingJumpCount,
                  PendingSprintEnabled, cmdLog>>
           => op' \in GameThreadOps
        /\ op' = "Accept" =>
              /\ UNCHANGED <<Clients, MoveActions, LookActions, PendingJumpCount,
                             PendingSprintEnabled, cmdLog, MaxWalkSpeed>>
              /\ Len(tasks') = Len(tasks) + 1
              /\ socks[tasks'[Len(tasks')]].st = "free"
              /\ socks'[tasks'[Len(tasks')]].st = "connected"
              /\ \A i \in 1..Len(Clients') : Clients'[i].Socket # tasks'[Len(tasks')] ]_vars

\* a socket has been accepted and handed off and is not in the registry yet,
\* while another client is registered
C18_Witness ==
    /\ op = "Accept"
    /\ tasks # <<>>
    /\ socks[tasks[Len(tasks)]].st = "connected"
    /\ ~Registered(tasks[Len(tasks)])
    /\ Clients # <<>>

\* the distance a snapshot should report for a probe that met h, of range r
Reported(h, r) == IF h.bHit THEN h.Distance ELSE r

\* C19: a snapshot built with a pawn bound reports, for every probe that met
\* nothing, that probe's range: 200 for the three forward probes and the two side
\* probes, 300 for the down probe; with nothing met by any probe all six are the
\* ranges and blocked.forward is false.
C19_OpenSceneReportsRanges ==
    (snapshot # <<>> /\ snapshot[1].state.pawn) =>
        LET t == snapshot[1].state.trace IN
        /\ ~scene.knee.bHit  => t.forward.knee = RangeFwd
        /\ ~scene.waist.bHit => t.forward.waist = RangeFwd
        /\ ~scene.chest.bHit => t.forward.chest = RangeFwd
        /\ ~scene.left.bHit  => t.left.waist = RangeSide
        /\ ~scene.right.bHit => t.right.waist = RangeSide
        /\ ~scene.down.bHit  => t.down.dist = RangeDown
        /\ scene = OpenScene =>
              /\ t = [forward |-> [knee |-> 200, waist |-> 200, chest |-> 200],
                      left |-> [waist |-> 200], right |-> [waist |-> 200],
                      down |-> [dist |-> 300]]
              /\ ~snapshot[1].state.blocked.forward

\* a state command has been answered for a character standing in the open
C19_Witness ==
    /\ snapshot # <<>>
    /\ snapshot[1].state.pawn
    /\ scene = OpenScene
    /\ snapshot[1].state.trace.forward.waist = 200
    /\ snapshot[1].state.trace.down.dist = 300
    /\ ~snapshot[1].state.blocked.forward
    /\ cmdLog[Len(cmdLog)].cmd = "state"

\* C20: in every snapshot blocked.forward is true exactly when the forward waist
\* distance d has 0 < d < 100, where d is what the waist probe met, the forward
\* range when it met nothing, and 0 when no pawn was bound.
C20_BlockedForward ==
    snapshot # <<>> =>
        LET st == snapshot[1].state
            d  == st.trace.forward.waist
        IN /\ d = IF st.pawn THEN Reported(scene.waist, RangeFwd) ELSE 0
           /\ st.blocked.forward <=> (0 < d /\ d < 100)
           /\ d = 0 => ~st.blocked.forward
           /\ d >= 100 => ~st.blocked.forward

\* a snapshot with an obstacle 99 units ahead at waist height says blocked
C20_Witness ==
    /\ snapshot # <<>>
    /\ snapshot[1].state.pawn
    /\ scene.waist = Hit(99)
    /\ snapshot[1].state.trace.forward.waist = 99
    /\ snapshot[1].state.blocked.forward

\* the value the member k of a line stands for when it is a JSON number, else dflt
NumberIn(line, k, dflt) ==
    LET hits == {i \in 1..Len(line) :
                    /\ line[i] \in MemberTokens
                    /\ MemberOf(line[i]).key = k
                    /\ MemberOf(line[i]).ty = "Number"}
    IN IF hits = {} THEN dflt ELSE MemberOf(line[CHOOSE i \in hits : TRUE]).num

HasMember(line, tok) == \E i \in 1..Len(line) : line[i] = tok

\* C21: a Move or Look line is always ingested as one action, whatever its numeric
\* members are: each of forward, right, yawRate, pitchRate that is missing or not
\* a number counts as 0, a duration that is missing or not a number as
\* DefaultMoveDuration or DefaultLookDuration; and a drain adds exactly one pool
\* entry per such line.
C21_NumericDefaults ==
    /\ [](\A i \in 1..Len(cmdLog) :
            LET e == cmdLog[i] IN
            /\ HasMember(e.line, "cmd:move") =>
                  /\ e.cmd = "move"
                  /\ e.a = NumberIn(e.line, "forward", 0)
                  /\ e.b = NumberIn(e.line, "right", 0)
                  /\ e.d = NumberIn(e.line, "duration", 5)
            /\ HasMember(e.line, "cmd:look") =>
                  /\ e.cmd = "look"
                  /\ e.a = NumberIn(e.line, "yawRate", 0)
                  /\ e.b = NumberIn(e.line, "pitchRate", 0)
                  /\ e.d = NumberIn(e.line, "duration", 4))
    /\ [][ op' = "RunTask" =>
             LET New == SubSeq(cmdLog', Len(cmdLog) + 1, Len(cmdLog'))
                 Mv  == OfKind(New, "move")
                 Lk  == OfKind(New, "look")
             IN /\ MoveActions' = MoveActions \o
                      [i \in 1..Len(Mv) |-> [Axis |-> <<Mv[i].a, Mv[i].b>>,
                                             EndTime |-> Mv[i].at + Mv[i].d]]
                /\ LookActions' = LookActions \o
                      [i \in 1..Len(Lk) |-> [Rate |-> <<Lk[i].a, Lk[i].b>>,
                                             EndTime |-> Lk[i].at + Lk[i].d]] ]_vars

\* a Move whose forward and duration are strings has been ingested as Move(0, 0)
\* with the default duration
C21_Witness ==
    /\ cmdLog # <<>>
    /\ cmdLog[1].line = Obj3("cmd:move", "forward:x", "duration:x")
    /\ cmdLog[1].cmd = "move" /\ cmdLog[1].a = 0 /\ cmdLog[1].d = DefaultMoveDuration
    /\ MoveActions = <<[Axis |-> <<0, 0>>, EndTime |-> cmdLog[1].at + DefaultMoveDuration]>>
    /\ op = "RunTask"

\* the receive buffer of the registry entry of socket s
PendingOf(s) == Clients[CHOOSE i \in 1..Len(Clients) : Clients[i].Socket = s].Pending

\* C22: however the bytes of a connection were cut into sends, reads of at most
\* ChunkLimit and drain passes, the lines emitted so far are the lines the
\* splitter gives for everything received taken as one piece, and the receive
\* buffer holds what that one split would leave: the bytes after the last LF.
C22_ChunkingIndependent ==
    \A s \in Sockets :
        LET Whole == Strands_SplitLines(Consumed(s), <<>>) IN
        /\ LinesSeen(s) = Whole.lines
        /\ Registered(s) =>
              /\ PendingOf(s) = Whole.acc
              /\ \A k \in 1..Len(PendingOf(s)) : PendingOf(s)[k] # LF

\* the first half of a line has been read and is buffered; nothing was emitted
C22_Witness ==
    /\ sent[1] = <<"{", "cmd:jump">>
    /\ socks[1].rx = <<>>
    /\ Registered(1)
    /\ PendingOf(1) = <<"{", "cmd:jump">>
    /\ cmdLog = <<>>

\* C23: the decoder is handed each complete non-empty line of a connection once,
\* in the order received: every step only appends to what has been decoded, and
\* after it the lines decoded from a connection are, one for one, the lines of
\* the bytes read from it, whether the accept-time drain or a poll read them.
C23_EachLineOnce ==
    [][ /\ Len(cmdLog') >= Len(cmdLog)
        /\ SubSeq(cmdLog', 1, Len(cmdLog)) = cmdLog
        /\ \A s \in Sockets :
              /\ Len(FromSock(s)') = Len(LinesOf(Consumed(s)'))
              /\ \A k \in 1..Len(FromSock(s)') :
                    FromSock(s)'[k].line = LinesOf(Consumed(s)')[k] ]_vars

\* a frame fired two jumps of one connection: one its own poll read, the other
\* read by the drain at accept
C23_Witness ==
    /\ op = "Tick"
    /\ frame.calls.jumps = 2
    /\ Len(OfKind(SubSeq(cmdLog, Len(cmdLog) - frame.ingested + 1, Len(cmdLog)), "jump")) = 1
    /\ Len(OfKind(FromSock(1), "jump")) = 2

\* what follows the last LF of a stream
RECURSIVE AfterLastLF(_)
AfterLastLF(stream) ==
    IF \A i \in 1..Len(stream) : stream[i] # LF THEN stream
    ELSE AfterLastLF(SubSeq(stream, FindChar(stream, LF) + 1, Len(stream)))

\* the sockets whose queued registration has run and that have not been destroyed
Live(s) ==
    /\ socks[s].st # "free"
    /\ ~socks[s].destroyed
    /\ \A k \in 1..Len(tasks) : tasks[k] # s

\* C24: a connection has one registry entry, never two, and a buffer of its own:
\* the buffer of each entry is the unterminated tail of the bytes read from its
\* own socket, and the lines decoded from a socket are the lines of its own
\* bytes, whatever arrived on the other connections in between.
C24_OneEntryOwnBuffer ==
    \A s \in Sockets :
        /\ Cardinality({i \in 1..Len(Clients) : Clients[i].Socket = s}) <= 1
        /\ Live(s) => Registered(s)
        /\ Registered(s) => PendingOf(s) = AfterLastLF(Consumed(s))
        /\ LinesSeen(s) = LinesOf(Consumed(s))

\* a partial line is buffered on one connection while a complete line of the
\* other connection has been decoded
C24_Witness ==
    /\ Registered(1) /\ Registered(2)
    /\ PendingOf(1) = <<"{", "cmd:jump">>
    /\ PendingOf(2) = <<>>
    /\ sent[2] = JumpLF
    /\ LinesSeen(1) = <<>>
    /\ LinesSeen(2) = <<Obj1("cmd:jump")>>

\* everything ProcessLine can touch but the pool, counter or latch named
Others(W, kind) ==
    <<IF kind = "move" THEN <<>> ELSE W.MoveActions,
      IF kind = "look" THEN <<>> ELSE W.LookActions,
      IF kind = "jump" THEN 0 ELSE W.PendingJumpCount,
      IF kind = "sprint" THEN <<>> ELSE W.PendingSprintEnabled,
      W.Clients, W.socks, W.MaxWalkSpeed, W.snapshot, W.shots>>

\* C25: ingesting a command touches the state of its kind only.  In every state,
\* a Move adds one entry at the end of the Move pool and leaves the entries
\* already there, the Look pool, the counter and the latch as they are; a Look
\* does the same to the Look pool; a Jump adds one to the counter and a Sprint
\* sets the latch, and nothing else.  A drain that reads Moves and Looks grows
\* each pool by the commands of its kind and keeps the old entries in place.
C25_IngestTouchesOwnKind ==
    /\ [](LET Mv == ProcessLine(World, Obj3("cmd:move", "forward:1", "duration:1"), now)
              Lk == ProcessLine(World, Obj3("cmd:look", "yawRate:90", "duration:1"), now)
              Jp == ProcessLine(World, Obj1("cmd:jump"), now)
              Sp == ProcessLine(World, Obj2("cmd:sprint", "enabled:true"), now)
          IN /\ Mv.MoveActions = MoveActions \o <<[Axis |-> <<1, 0>>, EndTime |-> now + 1]>>
             /\ Others(Mv, "move") = Others(World, "move")
             /\ Lk.LookActions = LookActions \o <<[Rate |-> <<90, 0>>, EndTime |-> now + 1]>>
             /\ Others(Lk, "look") = Others(World, "look")
             /\ Jp.PendingJumpCount = PendingJumpCount + 1
             /\ Others(Jp, "jump") = Others(World, "jump")
             /\ Sp.PendingSprintEnabled = <<TRUE>>
             /\ Others(Sp, "sprint") = Others(World, "sprint"))
    /\ [][ op' = "RunTask" =>
             LET New == SubSeq(cmdLog', Len(cmdLog) + 1, Len(cmdLog'))
             IN /\ Len(MoveActions') = Len(MoveActions) + Len(OfKind(New, "move"))
                /\ SubSeq(MoveActions', 1, Len(MoveActions)) = MoveActions
                /\ Len(LookActions') = Len(LookActions) + Len(OfKind(New, "look"))
                /\ SubSeq(LookActions', 1, Len(LookActions)) = LookActions
                /\ UNCHANGED <<PendingJumpCount, PendingSprintEnabled>> ]_vars

\* one drain has ingested two Moves; both are in the pool, in order, and the Look
\* pool is empty
C25_Witness ==
    /\ op = "RunTask"
    /\ Len(cmdLog) = 2
    /\ cmdLog[1].cmd = "move" /\ cmdLog[2].cmd = "move"
    /\ cmdLog[1].d # cmdLog[2].d
    /\ MoveActions = <<[Axis |-> <<cmdLog[1].a, cmdLog[1].b>>, EndTime |-> cmdLog[1].end],
                       [Axis |-> <<cmdLog[2].a, cmdLog[2].b>>, EndTime |-> cmdLog[2].end]>>
    /\ LookActions = <<>>

\* C26: right after a resolve pass at time T no entry of either pool has
\* EndTime <= T; no step but a resolve pass takes an entry out of a pool: an
\* ingest, the passing of time and StopServer leave the entries there in place;
\* and the entries a pass keeps are the ones it summed: the frame's move axis is
\* the clamped sum of the Move pool it leaves, and the look rate the sum of the
\* Look pool it leaves.
C26_PoolsSweptByResolveOnly ==
    /\ [](op = "Tick" =>
            /\ \A i \in 1..Len(MoveActions) : MoveActions[i].EndTime > now
            /\ \A i \in 1..Len(LookActions) : LookActions[i].EndTime > now)
    /\ [][ op' # "Tick" =>
             /\ Len(MoveActions') >= Len(MoveActions)
             /\ SubSeq(MoveActions', 1, Len(MoveActions)) = MoveActions
             /\ Len(LookActions') >= Len(LookActions)
             /\ SubSeq(LookActions', 1, Len(LookActions)) = LookActions ]_vars
    /\ [][ op' = "Tick" =>
             /\ frame'.MoveAxis =
                  ClampMoveAxis(<<SumOf([i \in 1..Len(MoveActions') |-> MoveActions'[i].Axis[1]]),
                                  SumOf([i \in 1..Len(MoveActions') |-> MoveActions'[i].Axis[2]])>>)
             /\ frame'.LookRate =
                  <<SumOf([i \in 1..Len(LookActions') |-> LookActions'[i].Rate[1]]),
                    SumOf([i \in 1..Len(LookActions') |-> LookActions'[i].Rate[2]])>> ]_vars

\* the server has been stopped with two Moves ingested; the pass after it has
\* dropped the one whose window was over and kept, and summed, the other
C26_Witness ==
    /\ op = "Tick"
    /\ ~bRunning
    /\ Len(OfKind(cmdLog, "move")) = 2
    /\ Len(MoveActions) = 1
    /\ MoveActions[1].EndTime > now
    /\ frame.MoveAxis = MoveActions[1].Axis

\* no Move or Look can arrive any more: the peer has sent all it will send and
\* every byte of it has been read
NoMoreInput == sends = MaxSends /\ \A s \in Sockets : socks[s].rx = <<>>

\* every window in the pools ends within the time the clock covers
WindowsEnd ==
    /\ \A i \in 1..Len(MoveActions) : MoveActions[i].EndTime <= MaxTime
    /\ \A i \in 1..Len(LookActions) : LookActions[i].EndTime <= MaxTime

AtRest ==
    /\ MoveActions = <<>> /\ LookActions = <<>>
    /\ frame.MoveAxis = <<0, 0>> /\ frame.LookRate = <<0, 0>>

\* C27: once no further Move or Look arrives, with frames running and the clock
\* advancing past the windows in the pools, both pools become empty and the
\* resolved move axis and look rate become (0, 0), and they stay so.  After
\* every resolve pass the pools hold exactly the actions whose window is still
\* open, so none outlives its window beyond the first frame at or after its end;
\* and the sums of a pass count the actions still in their window only, so an
\* action that was dropped contributes to no later frame.
C27_ActionsRunOut ==
    /\ (NoMoreInput /\ WindowsEnd) ~> []AtRest
    /\ [](op = "Tick" =>
            /\ Len(MoveActions) = Cardinality(LiveAt("move", now))
            /\ Len(LookActions) = Cardinality(LiveAt("look", now))
            /\ frame.MoveAxis =
                 <<Saturate(SumOf([i \in LiveAt("move", now) |-> cmdLog[i].a])),
                   Saturate(SumOf([i \in LiveAt("move", now) |-> cmdLog[i].b]))>>
            /\ frame.LookRate =
                 <<SumOf([i \in LiveAt("look", now) |-> cmdLog[i].a]),
                   SumOf([i \in LiveAt("look", now) |-> cmdLog[i].b])>>)

\* a Move and a Look of one second each were ingested, nothing more can arrive,
\* and a frame after their windows has found both pools empty and resolved (0, 0)
C27_Witness ==
    /\ op = "Tick"
    /\ NoMoreInput
    /\ Len(cmdLog) = 2
    /\ \E i, j \in 1..2 : /\ cmdLog[i].cmd = "move" /\ cmdLog[j].cmd = "look"
                          /\ cmdLog[i].d = 1 /\ cmdLog[j].d = 1
                          /\ cmdLog[i].end <= now /\ cmdLog[j].end <= now
    /\ AtRest

\* the calls of Recv a frame made on socket s, in order
ReadsOn(rs, s) == SelectSeq(rs, LAMBDA r : r.sock = s)

\* the number of reads of at most ChunkLimit bytes that n bytes take
ReadsFor(n) == (n + ChunkLimit - 1) \div ChunkLimit

\* C28: the poll pass of a frame never waits for bytes: it calls Recv only on a
\* socket that reports bytes pending, with a buffer of at most ChunkLimit (65536)
\* bytes, and a connection with nothing pending gets no call at all.  The loop
\* of a connection ends when nothing more is pending or a read fails: a
\* connection whose reads succeed is read in as many calls as its pending bytes
\* take and is left with none unread; one whose read fails gets that one call.
\* So the pass ends after the reads the bytes available at its start take.
C28_PollNeverWaits ==
    [][ (op' = "Tick" /\ bRunning) =>
          /\ \A k \in 1..Len(frame'.reads) :
                LET r == frame'.reads[k] IN
                /\ r.avail > 0
                /\ r.asked = Min(r.avail, ChunkLimit)
                /\ r.asked <= ChunkLimit
                /\ r.got <= r.asked
                /\ Registered(r.sock)
          /\ \A s \in Sockets :
                LET rs == ReadsOn(frame'.reads, s) IN
                /\ (Registered(s) /\ socks[s].rx = <<>>) => rs = <<>>
                /\ ~Registered(s) => rs = <<>>
                /\ (Registered(s) /\ socks[s].st # "error") =>
                      /\ Len(rs) = ReadsFor(Len(socks[s].rx))
                      /\ \A k \in 1..Len(rs) : rs[k].got = rs[k].asked
                      /\ socks'[s].rx = <<>>
                /\ (Registered(s) /\ socks[s].st = "error" /\ socks[s].rx # <<>>) =>
                      /\ Len(rs) = 1
                      /\ rs[1].got = 0
                      /\ socks'[s].rx = socks[s].rx
          /\ Len(frame'.reads) <= SumOf([s \in Sockets |-> ReadsFor(Len(socks[s].rx))]) ]_vars

\* a frame has read one connection in two calls, the first of ChunkLimit bytes,
\* and made no call on the other connection, which had nothing pending
C28_Witness ==
    /\ op = "Tick"
    /\ Registered(1) /\ Registered(2)
    /\ Len(frame.reads) = 2
    /\ frame.reads[1].sock = frame.reads[2].sock
    /\ frame.reads[1].avail > ChunkLimit
    /\ frame.reads[1].got = ChunkLimit
    /\ frame.reads[2].avail = frame.reads[1].avail - ChunkLimit
    /\ \A s \in Sockets : socks[s].rx = <<>>

\* C29: in the HostProject copy too, a connection found not connected is closed
\* and removed only after its pending bytes have been read and its complete
\* lines processed: when a frame closes a connection, every line its peer sent
\* has been handed to ProcessLine, a line sent just before the close included.
C29_HostProjectDrainsBeforeClose ==
    [][ (op' = "Tick" /\ bRunning) =>
           \A s \in frame'.closed :
              /\ socks'[s].rx = <<>>
              /\ LinesSeen(s)' = LinesOf(sent[s]) ]_vars

\* a capacity that the connections a peer side can open exceed
HandoffCapacity == MaxSockets - 1

\* the sockets accepted whose queued registration has not run yet
AwaitingRegistration == {s \in Sockets : \E k \in 1..Len(tasks) : tasks[k] = s}

\* C30: the hand-off from the accept callback to the game thread is bounded: the
\* sockets accepted and not yet registered never number more than a fixed
\* capacity, whatever the number of connections; and a socket is in Clients,
\* where the poll pass finds it, only once its queued registration has run.
C30_HandoffBounded ==
    /\ Cardinality(AwaitingRegistration) <= HandoffCapacity
    /\ \A s \in Sockets : Registered(s) => s \notin AwaitingRegistration

\* the second half of C30 by itself
HandoffOnly ==
    \A s \in Sockets : Registered(s) => s \notin AwaitingRegistration

\* C31: StopServer changes the running flag, the registry (with its sockets)
\* and the listener only: the two pools, the jump counter and the sprint latch
\* are as they were.  A frame of a stopped server reads no connection, and still
\* resolves and applies what is pending: the move axis is the clamped sum of the
\* Moves in their window, a bound character jumps for the count pending and has
\* its speed set for the pending Sprint, and counter and latch are consumed.
C31_StopLeavesScheduler ==
    /\ [][ op' = "StopServer" =>
             /\ UNCHANGED <<MoveActions, LookActions, PendingJumpCount,
                            PendingSprintEnabled, MaxWalkSpeed, cmdLog, now, pawn>>
             /\ ~bRunning' /\ Clients' = <<>> /\ ~Listener' ]_vars
    /\ [][ (op' = "Tick" /\ ~bRunning) =>
             /\ frame'.reads = <<>>
             /\ frame'.ingested = 0
             /\ UNCHANGED <<socks, Clients, cmdLog>>
             /\ frame'.MoveAxis =
                  <<Saturate(SumOf([i \in LiveAt("move", now') |-> cmdLog[i].a])),
                    Saturate(SumOf([i \in LiveAt("move", now') |-> cmdLog[i].b]))>>
             /\ \A i \in 1..Len(MoveActions') : MoveActions'[i].EndTime > now'
             /\ pawn = "Character" =>
                   /\ frame'.calls.jumps = PendingJumpCount
                   /\ PendingJumpCount' = 0
                   /\ PendingSprintEnabled # <<>> =>
                         /\ frame'.calls.speed =
                              <<IF PendingSprintEnabled[1] THEN SprintWalkSpeed
                                                           ELSE NormalWalkSpeed>>
                         /\ MaxWalkSpeed' = frame'.calls.speed[1]
             /\ PendingSprintEnabled' = <<>> ]_vars

\* a frame of a stopped server has applied the Move, the Jump and the Sprint that
\* were pending when it was stopped
C31_Witness ==
    /\ op = "Tick"
    /\ ~bRunning
    /\ pawn = "Character"
    /\ frame.MoveAxis = <<1, 0>>
    /\ frame.calls.move = << <<1, 0>> >>
    /\ frame.calls.jumps = 1
    /\ frame.calls.speed = <<SprintWalkSpeed>>
    /\ PendingJumpCount = 0 /\ PendingSprintEnabled = <<>>
    /\ Len(MoveActions) = 1

\* C32: a Sprint decision pending in a frame with no character bound is consumed
\* without effect: the frame leaves the latch unset, sets no speed and leaves
\* MaxWalkSpeed as it was; and it is not applied later: a frame sets the speed
\* only for a Sprint command ingested since the frame before it, so the frame
\* after a character is possessed sets nothing for the decision consumed.
C32_SprintWithoutCharacterConsumed ==
    /\ [][ (op' = "Tick" /\ ~Strands_GetControlledCharacter(pawn)) =>
             /\ PendingSprintEnabled' = <<>>
             /\ frame'.calls.speed = <<>>
             /\ MaxWalkSpeed' = MaxWalkSpeed ]_vars
    /\ [][ (op' = "Tick" /\ OfKind(SubSeq(cmdLog', mark + 1, Len(cmdLog')), "sprint") = <<>>) =>
             /\ frame'.calls.speed = <<>>
             /\ MaxWalkSpeed' = MaxWalkSpeed ]_vars
    /\ [][ op' # "Tick" => MaxWalkSpeed' = MaxWalkSpeed ]_vars

\* Sprint(true) was the only command; a frame without a character consumed it,
\* and the frame after a character was possessed has set no speed: MaxWalkSpeed
\* has never been written
C32_Witness ==
    /\ op = "Tick"
    /\ pawn = "Character"
    /\ Len(cmdLog) = 1 /\ cmdLog[1].cmd = "sprint" /\ cmdLog[1].en
    /\ mark = 1 /\ frame.ingested = 0
    /\ PendingSprintEnabled = <<>>
    /\ frame.calls.speed = <<>>
    /\ MaxWalkSpeed = 0

\* the registry index of socket s
IndexOf(s) == CHOOSE i \in 1..Len(Clients) : Clients[i].Socket = s

\* C33: every connection feeds the same scheduler: the commands a poll pass
\* reads from any of them go to the one jump counter and the one sprint latch.
\* When two connections each deliver a valid Sprint in one poll pass, the frame
\* applies the last Sprint of the connection polled last, which is the one with
\* the lowest registry index; the order in which the bytes reached the sockets
\* plays no part.
C33_LastPolledSprintWins ==
    [][ (op' = "Tick" /\ bRunning) =>
          LET New  == SubSeq(cmdLog', Len(cmdLog) + 1, Len(cmdLog'))
              Sp   == OfKind(New, "sprint")
              From == {Sp[k].sock : k \in 1..Len(Sp)}
              Low  == CHOOSE s \in From : \A t \in From : IndexOf(s) <= IndexOf(t)
              Mine == SelectSeq(Sp, LAMBDA e : e.sock = Low)
              Want == IF Mine[Len(Mine)].en THEN SprintWalkSpeed ELSE NormalWalkSpeed
          IN /\ frame'.jumped + PendingJumpCount' = Len(OfKind(cmdLog', "jump"))
             /\ Cardinality(From) >= 2 =>
                   /\ Sp[Len(Sp)].sock = Low
                   /\ frame'.calls.speed = <<Want>>
                   /\ MaxWalkSpeed' = Want ]_vars

\* one poll pass read Sprint(true) from the second connection and then
\* Sprint(false) from the first; the frame set the normal speed
C33_Witness ==
    /\ op = "Tick"
    /\ Clients = <<[Socket |-> 1, Pending |-> <<>>], [Socket |-> 2, Pending |-> <<>>]>>
    /\ frame.ingested = 2 /\ Len(cmdLog) = 2
    /\ cmdLog[1].sock = 2 /\ cmdLog[1].cmd = "sprint" /\ cmdLog[1].en
    /\ cmdLog[2].sock = 1 /\ cmdLog[2].cmd = "sprint" /\ ~cmdLog[2].en
    /\ frame.calls.speed = <<NormalWalkSpeed>>
    /\ MaxWalkSpeed = NormalWalkSpeed

\* C34: when a connection is removed, by the poll pass that finds its peer gone
\* or by StopServer, what its buffer holds after the last line feed goes with
\* it: the lines decoded from a destroyed socket are the LF-terminated lines of
\* the bytes read from it and no more, it has no registry entry (and so no
\* buffer) left, and nothing is decoded from it afterwards.
C34_UnterminatedDiscarded ==
    /\ [](\A s \in Sockets :
            socks[s].destroyed =>
               /\ ~Registered(s)
               /\ LinesSeen(s) = LinesOf(Consumed(s))
               /\ Len(OfKind(FromSock(s), "jump")) = Len(Expected(Consumed(s))))
    /\ [][ \A s \in Sockets :
              /\ socks[s].destroyed => FromSock(s)' = FromSock(s)
              /\ (Registered(s) /\ ~Registered(s)') =>
                    LinesSeen(s)' = LinesOf(Consumed(s)') ]_vars

\* each of two connections had read a jump line and then {"cmd":"jump"} without
\* its line feed; one was removed by StopServer and the other by the poll pass
\* after its peer had closed, and one jump was decoded from each
C34_Witness ==
    /\ op = "Tick"
    /\ 2 \in frame.closed
    /\ socks[1].destroyed /\ socks[2].destroyed
    /\ Consumed(1) = JumpLF \o Obj1("cmd:jump")
    /\ Consumed(2) = JumpLF \o Obj1("cmd:jump")
    /\ Clients = <<>>
    /\ Len(cmdLog) = 2
    /\ Len(FromSock(1)) = 1 /\ Len(FromSock(2)) = 1

\* the path a state or screenshot line names, or the default of its command
PathIn(line, dflt) == IF HasMember(line, "path:p") THEN "p" ELSE dflt

\* how many times a world state has been saved to a file
Writes == IF snapshot = <<>> THEN 0 ELSE snapshot[1].writes

\* C35: a state or a screenshot command is carried out while its line is
\* ingested, in the drain: every step writes exactly one snapshot per state
\* command it ingests and makes exactly one capture request per screenshot
\* command, at the path the command gives or at the command's default path; only
\* a drain (at registration or in a frame's poll) does so; and the snapshot is
\* built from the world as it was before that frame's resolve and apply: the
\* walk speed not yet changed by a sprint of the same drain and no call made on
\* the pawn yet.
C35_CapturesAtIngest ==
    [][ LET New    == SubSeq(cmdLog', Len(cmdLog) + 1, Len(cmdLog'))
            States == OfKind(New, "state")
            Shots  == OfKind(New, "screenshot")
        IN /\ Writes' = Writes + Len(States)
           /\ Len(shots') = Len(shots) + Len(Shots)
           /\ SubSeq(shots', 1, Len(shots)) = shots
           /\ \A i \in 1..Len(Shots) :
                 shots'[Len(shots) + i] =
                    [path   |-> PathIn(Shots[i].line, DefaultShotPath),
                     showUI |-> HasMember(Shots[i].line, "showUI:true")]
           /\ (States # <<>> \/ Shots # <<>>) => op' \in {"Tick", "RunTask"}
           /\ States = <<>> => snapshot' = snapshot
           /\ States # <<>> =>
                 /\ snapshot'[1].path =
                       PathIn(States[Len(States)].line, DefaultStatePath)
                 /\ snapshot'[1].state = BuildWorldState(pawn, scene)
                 /\ snapshot'[1].seen =
                       [MaxWalkSpeed |-> MaxWalkSpeed, calls |-> NoCalls] ]_vars

\* one frame's poll ingested a sprint and then a state command from one read;
\* the frame went on to set the walk speed, and the snapshot written during its
\* drain shows the speed as it was before; a screenshot had been requested at
\* the path its command gave, with the UI shown
C35_Witness ==
    /\ op = "Tick"
    /\ frame.ingested = 2
    /\ Len(cmdLog) >= 2
    /\ cmdLog[Len(cmdLog) - 1].cmd = "sprint"
    /\ cmdLog[Len(cmdLog)].cmd = "state"
    /\ MaxWalkSpeed = SprintWalkSpeed
    /\ snapshot # <<>>
    /\ snapshot[1].seen.MaxWalkSpeed = 0
    /\ snapshot[1].path = DefaultStatePath
    /\ \E i \in 1..Len(shots) : shots[i] = [path |-> "p", showUI |-> TRUE]

\* the possessed pawn is an ACharacter
IsCharacter(p) == p \in {"Character", "CharacterNoMoveComp"}

\* C36: a frame makes its movement, jump and walk-speed calls only on a
\* possessed Character, and its look calls on any possessed pawn.  With a pawn
\* that is not a Character a frame whose resolved look rate is not zero makes
\* the yaw and pitch calls with the rate times the frame's delta, makes no
\* AddMovementInput, Jump or MaxWalkSpeed call, leaves the pending jumps
\* pending, and still drops the expired entries of both pools; with no pawn at
\* all it makes no call.
C36_OnlyLookWithoutCharacter ==
    [][ op' = "Tick" =>
          /\ (\/ frame'.calls.move # <<>>
              \/ frame'.calls.jumps > 0
              \/ frame'.calls.speed # <<>>
              \/ MaxWalkSpeed' # MaxWalkSpeed) => IsCharacter(pawn)
          /\ ~IsCharacter(pawn) =>
                /\ frame'.jumped = frame.jumped
                /\ PendingJumpCount' >= PendingJumpCount
          /\ frame'.calls.look # <<>> <=>
                (pawn # "None" /\ frame'.LookRate # <<0, 0>>)
          /\ frame'.calls.look # <<>> =>
                \E dt \in DeltaTimes :
                    frame'.calls.look =
                       << <<frame'.LookRate[1] * dt, frame'.LookRate[2] * dt>> >>
          /\ \A i \in 1..Len(MoveActions') : MoveActions'[i].EndTime > now'
          /\ \A i \in 1..Len(LookActions') : LookActions'[i].EndTime > now' ]_vars

\* a pawn that is no Character is possessed; the frame at time 1 dropped the
\* Move and the Look whose windows had ended, resolved a move axis and a look
\* rate from the ones still running, and made the look call only: the jump is
\* still pending, the sprint decision is gone and the walk speed was never set
C36_Witness ==
    /\ op = "Tick"
    /\ pawn = "Pawn"
    /\ now = 1
    /\ Len(OfKind(cmdLog, "move")) = 2 /\ Len(MoveActions) = 1
    /\ Len(OfKind(cmdLog, "look")) = 2 /\ Len(LookActions) = 1
    /\ frame.MoveAxis = <<1, 0>>
    /\ frame.LookRate = <<0, -30>>
    /\ frame.calls.look # <<>>
    /\ frame.calls.move = <<>>
    /\ frame.calls.jumps = 0 /\ PendingJumpCount = 1 /\ frame.jumped = 0
    /\ Len(OfKind(cmdLog, "sprint")) = 1
    /\ PendingSprintEnabled = <<>>
    /\ frame.calls.speed = <<>> /\ MaxWalkSpeed = 0

\* C37: a poll pass of a running server visits every connection registered at its
\* start exactly once, and no other: for each it enters the read loop once and
\* then asks the connection state once, whatever entries it swap-removes on the
\* way, and it touches no socket that was not registered.  Every connection is
\* left with nothing unread (unless its reads fail), and is closed and removed
\* in this pass exactly if it was found not connected.
C37_EveryConnectionVisitedOnce ==
    [][ (op' = "Tick" /\ bRunning) =>
          \A s \in Sockets :
             /\ frame'.visits[s] = IF Registered(s) THEN <<"drain", "check">> ELSE <<>>
             /\ Registered(s) =>
                   /\ socks'[s].rx = <<>> \/ socks[s].st = "error"
                   /\ s \in frame'.closed <=> socks[s].st # "connected"
                   /\ Registered(s)' <=> socks[s].st = "connected" ]_vars

\* two connections were registered and each had two lines waiting; the pass read
\* the second entry, kept it, then read the first, whose peer had closed, and
\* removed it: the entry that was kept moved into its slot and was not visited
\* again
C37_Witness ==
    /\ op = "Tick"
    /\ bRunning
    /\ Len(Clients) = 1
    /\ frame.visits[Clients[1].Socket] = <<"drain", "check">>
    /\ \E s \in frame.closed :
          /\ frame.closed = {s}
          /\ frame.visits[s] = <<"drain", "check">>
          /\ frame.ingested = 4
          /\ cmdLog[Len(cmdLog) - 2].sock = Clients[1].Socket
          /\ cmdLog[Len(cmdLog)].sock = s

\* where a connection stands: 0 not yet registered, 1 Open (registered and
\* connected), 2 Closing (registered, its peer gone or its socket failed),
\* 3 Closed (socket closed and destroyed)
Stage(s) ==
    IF socks[s].destroyed THEN 3
    ELSE IF ~Registered(s) THEN 0
    ELSE IF socks[s].st = "connected" THEN 1 ELSE 2

\* C38: once a socket has been closed and destroyed nothing touches it again:
\* no step reads it, asks its state, closes or destroys it, so Close and
\* DestroySocket are called at most once on any socket.  No registry entry holds
\* a null socket or a destroyed one, and no socket is registered twice.  A
\* connection only moves forward: registered and open, then closing, then
\* closed; and a registered connection is closed only when it is destroyed.
C38_DestroyedNeverTouched ==
    /\ [](\A s \in Sockets :
            /\ socks[s].closes <= 1 /\ socks[s].destroys <= 1
            /\ socks[s].destroyed <=> socks[s].destroys = 1
            /\ socks[s].closed <=> socks[s].closes = 1
            /\ socks[s].closed => socks[s].destroyed)
    /\ [](\A i \in 1..Len(Clients) :
            /\ Clients[i].Socket # 0
            /\ ~socks[Clients[i].Socket].destroyed
            /\ \A j \in 1..Len(Clients) : Clients[j].Socket = Clients[i].Socket => j = i)
    /\ [][ \A s \in Sockets :
             /\ socks[s].destroyed =>
                   /\ socks'[s] = socks[s]
                   /\ op' = "Tick" => /\ frame'.visits[s] = <<>>
                                      /\ ReadsOn(frame'.reads, s) = <<>>
             /\ Stage(s)' >= Stage(s)
             /\ (Stage(s)' = 3 /\ Stage(s) # 3 /\ Registered(s)) =>
                   /\ op' \in {"Tick", "StopServer", "Deinitialize"}
                   /\ socks'[s].closes = 1 ]_vars

\* one connection was closed by the poll pass after its peer had gone, the other
\* by StopServer; the server was started again and its next pass touched
\* neither: each socket was closed once and destroyed once
C38_Witness ==
    /\ op = "Tick"
    /\ bRunning
    /\ Clients = <<>>
    /\ socks[1].st = "peerclosed" /\ socks[2].st = "connected"
    /\ \A s \in Sockets :
          /\ socks[s].destroyed
          /\ socks[s].closes = 1 /\ socks[s].destroys = 1
          /\ frame.visits[s] = <<>>
    /\ Len(cmdLog) = 2

====
